---- MODULE Spec2Model ----
(***************************************************************************)
(* Grid decomposition and table classification engine of excel2md v2.0:    *)
(* table_detection.py (grid builder, rectangle decomposer, region union,   *)
(* table splitter), table_extraction.py (extract_table, dispatcher),       *)
(* table_formatting.py (text / code / nested checks) and runner.py.        *)
(*                                                                         *)
(* Grids are functions over 0-based local indices, as in the Python lists; *)
(* Python lists that are only appended to are TLA+ sequences; rectangles   *)
(* are the tuples <<top, left, bottom, right>>.                            *)
(***************************************************************************)
EXTENDS Integers, Sequences, FiniteSets, TLC

\* Bound of the rectangle decomposer's input grids: rows * columns.
MaxCells == 9

\* Bounds of the inputs of union_rects: rectangles lie in rows 1..MaxRectRow
\* and columns 1..MaxRectCol, and a list holds at most MaxRects of them.
MaxRectRow == 2
MaxRectCol == 3
MaxRects == 2

\* Bounds of the worksheets: rows * columns of the sheet and the number of
\* merged ranges.
MaxSheetCells == 6
MaxMerges == 1

VARIABLES
    pc,       \* position of the operation under study
    grid,     \* carve_rectangles: the caller's grid (never mutated)
    g,        \* carve_rectangles: the working copy that is zeroed
    out,      \* carve_rectangles: the rectangles recorded so far / returned
    rects,    \* union_rects: the argument list
    out_rects, \* union_rects: the returned list
    ws,       \* the worksheet: cells, merged ranges, hidden rows and columns
    area,     \* the (unioned) print area (r0, c0, r1, c1) under study
    hidden_policy, \* opts["hidden_policy"]
    nonempty, \* build_nonempty_grid: the returned grid
    tables,   \* grid_to_tables: the returned list of tables
    opts,     \* the options the table is extracted and dispatched under
    tbl,      \* dispatch_table_output: the table (bbox, mask)
    md_rows,  \* dispatch_table_output: the rows handed over
    result,   \* dispatch_table_output: the outcome
    table_id, \* run: the number of tables taken up so far
    md_lines, \* run: what was appended for each table
    colmap,   \* build_mermaid: the column index of each role
    row_no,   \* build_mermaid: the data rows taken up so far
    nodes,    \* build_mermaid: the dict nodes, in insertion order
    edges,    \* build_mermaid: the set edges
    groups,   \* build_mermaid: the dict groups, as (group, node id) pairs
    mermaid,  \* build_mermaid: the lines emitted
    rngs,     \* get_print_areas: the ranges of ws.print_area
    sheet_max, \* get_print_areas: (ws.max_row, ws.max_column)
    dimension, \* get_print_areas: the range of ws.calculate_dimension()
    mode,     \* get_print_areas: no_print_area_mode
    range_no, \* get_print_areas: the declared ranges taken up so far
    areas,    \* get_print_areas: the list areas / the list returned
    unioned,  \* run: union_rects(areas), the areas the tables are detected in
    union_no, \* run: the unioned areas taken up so far
    sheet_tables, \* run: the tables detected so far, each with its unioned area
    links,    \* run: per table of a footnote scope, the link of each hyperlink cell
    hyperlink_mode, \* opts["hyperlink_mode"]
    footnotes, \* run: the list footnotes
    global_footnote_start, \* run: the variable of that name
    note_marks \* the markers [^n] written into cells, as (table, cell, n)

carveVars == <<grid, g, out>>
unionVars == <<rects, out_rects>>
sheetVars == <<ws, area, hidden_policy>>
tableVars == <<nonempty, tables>>
dispatchVars == <<opts, tbl, md_rows, result>>
runVars == <<table_id, md_lines>>
flowVars == <<colmap, row_no, nodes, edges, groups, mermaid>>
areaVars == <<rngs, sheet_max, dimension, mode, range_no, areas>>
scanVars == <<unioned, union_no, sheet_tables>>
noteVars == <<links, hyperlink_mode, footnotes, global_footnote_start,
              note_marks>>

vars == <<pc, grid, g, out, rects, out_rects, ws, area, hidden_policy,
          nonempty, tables, opts, tbl, md_rows, result, table_id, md_lines,
          colmap, row_no, nodes, edges, groups, mermaid, rngs,
          sheet_max, dimension, mode, range_no, areas, unioned, union_no,
          sheet_tables, links, hyperlink_mode, footnotes,
          global_footnote_start, note_marks>>

\* the default of --max-cells-per-table
max_cells_per_table == 200000

\* Values of the variables that a specification does not use.
NoSheet ==
    [cells |-> <<>>, merged |-> {}, hidden_rows |-> {}, hidden_cols |-> {},
     borders |-> {}]
NoOpts ==
    [mermaid_enabled |-> FALSE, mermaid_detect_mode |-> "shapes",
     mermaid_keep_source_table |-> TRUE,
     dispatch_skip_code_and_mermaid_on_fallback |-> TRUE,
     header_detection |-> TRUE, merge_policy |-> "top_left_only",
     max_cells_per_table |-> max_cells_per_table]
NoTable == [bbox |-> <<1, 1, 1, 1>>, mask |-> {}]
CarveIdle == grid = <<>> /\ g = <<>> /\ out = <<>>
UnionIdle == rects = <<>> /\ out_rects = <<>>
DispatchIdle ==
    opts = NoOpts /\ tbl = NoTable /\ md_rows = <<>> /\ result = "none"
RunIdle == table_id = 0 /\ md_lines = <<>>
NoColmap == [from |-> 0, to |-> 0, label |-> 0, group |-> 0, note |-> 0]
FlowIdle ==
    /\ colmap = NoColmap
    /\ row_no = 0
    /\ nodes = <<>>
    /\ edges = {}
    /\ groups = {}
    /\ mermaid = <<>>
AreaIdle ==
    /\ rngs = <<>>
    /\ sheet_max = <<1, 1>>
    /\ dimension = <<1, 1, 1, 1>>
    /\ mode = "used_range"
    /\ range_no = 0
    /\ areas = <<>>
ScanIdle == unioned = <<>> /\ union_no = 0 /\ sheet_tables = <<>>
NoteIdle ==
    /\ links = <<>>
    /\ hyperlink_mode = "inline"
    /\ footnotes = <<>>
    /\ global_footnote_start = 1
    /\ note_marks = <<>>
SheetIdle ==
    /\ ws = NoSheet
    /\ area = <<1, 1, 1, 1>>
    /\ hidden_policy = "ignore"
    /\ nonempty = <<>>
    /\ tables = <<>>

----------------------------------------------------------------------------
(* Generic helpers *)

Max2(a, b) == IF a >= b THEN a ELSE b
Min2(a, b) == IF a <= b THEN a ELSE b

SetMin(S) == CHOOSE x \in S : \A y \in S : x <= y
SetMax(S) == CHOOSE x \in S : \A y \in S : x >= y

\* Lexicographic order on integer tuples of equal length, as Python compares
\* the key tuples of list.sort.
RECURSIVE LexLessFrom(_, _, _)
LexLessFrom(a, b, i) ==
    IF i > Len(a) THEN FALSE
    ELSE IF a[i] < b[i] THEN TRUE
    ELSE IF a[i] > b[i] THEN FALSE
    ELSE LexLessFrom(a, b, i + 1)
LexLess(a, b) == LexLessFrom(a, b, 1)

\* list.sort is stable: an entry <<key, value>> is inserted before the first
\* entry whose key is strictly greater, so equal keys keep their order.
RECURSIVE InsertStable(_, _, _)
InsertStable(s, x, j) ==
    IF j > Len(s) THEN Append(s, x)
    ELSE IF LexLess(x[1], s[j][1])
         THEN SubSeq(s, 1, j - 1) \o <<x>> \o SubSeq(s, j, Len(s))
         ELSE InsertStable(s, x, j + 1)

RECURSIVE StableSortFrom(_, _, _)
StableSortFrom(s, i, acc) ==
    IF i > Len(s) THEN acc
    ELSE StableSortFrom(s, i + 1, InsertStable(acc, s[i], 1))

\* s.sort(key=Key): Key(x) is a tuple of integers.
StableSort(s, Key(_)) ==
    LET keyed == [i \in 1..Len(s) |-> <<Key(s[i]), s[i]>>]
        sorted == StableSortFrom(keyed, 1, <<>>)
    IN [i \in 1..Len(s) |-> sorted[i][2]]

SeqToSet(s) == {s[i] : i \in 1..Len(s)}

----------------------------------------------------------------------------
(* Rectangles and grids *)

Rows(gr) == Cardinality(DOMAIN gr)
Cols(gr) == IF Rows(gr) = 0 THEN 0 ELSE Cardinality(DOMAIN gr[0])

RectArea(r) == (r[3] - r[1] + 1) * (r[4] - r[2] + 1)
RectCells(r) == (r[1]..r[3]) \X (r[2]..r[4])

GridCells(gr) == {rc \in (0..Rows(gr) - 1) \X (0..Cols(gr) - 1) : TRUE}
OneCells(gr) == {rc \in GridCells(gr) : gr[rc[1]][rc[2]] = 1}

GridsOf(R, C) == [0..R - 1 -> [0..C - 1 -> {0, 1}]]
Grids ==
    UNION {GridsOf(d[1], d[2]) :
             d \in {x \in (0..MaxCells) \X (0..MaxCells) : x[1] * x[2] <= MaxCells}}

----------------------------------------------------------------------------
(* enumerate_histogram_rectangles *)

\* The inner while loop: pop every stack entry that is higher than h.
RECURSIVE PopStack(_, _, _, _, _, _)
PopStack(stack, h, c, r, last, found) ==
    IF stack # <<>> /\ stack[Len(stack)][2] > h
    THEN LET i == stack[Len(stack)][1]
             hh == stack[Len(stack)][2]
             width == c - i
             top == r - hh + 1
             left == i
             bottom == r
             right == c - 1
         IN PopStack(SubSeq(stack, 1, Len(stack) - 1), h, c, r, i,
                     IF hh > 0 /\ width > 0
                     THEN Append(found, <<top, left, bottom, right>>)
                     ELSE found)
    ELSE [stack |-> stack, last |-> last, found |-> found]

\* for c in range(C + 1) over the histogram H of row r.
RECURSIVE ScanRow(_, _, _, _, _, _)
ScanRow(H, C, r, c, stack, found) ==
    IF c > C THEN found
    ELSE LET h == IF c < C THEN H[c] ELSE 0
             p == PopStack(stack, h, c, r, c, found)
             st == IF p.stack = <<>> \/ p.stack[Len(p.stack)][2] < h
                   THEN Append(p.stack, <<p.last, h>>)
                   ELSE p.stack
         IN ScanRow(H, C, r, c + 1, st, p.found)

\* for r in range(R): update H, then scan.
RECURSIVE EnumRows(_, _, _, _)
EnumRows(gr, r, H, found) ==
    IF r >= Rows(gr) THEN found
    ELSE LET H2 == [c \in 0..Cols(gr) - 1 |->
                        IF gr[r][c] = 1 THEN H[c] + 1 ELSE 0]
         IN EnumRows(gr, r + 1, H2, ScanRow(H2, Cols(gr), r, 0, <<>>, found))

enumerate_histogram_rectangles(gr) ==
    IF Rows(gr) = 0 \/ Cols(gr) = 0 THEN <<>>
    ELSE EnumRows(gr, 0, [c \in 0..Cols(gr) - 1 |-> 0], <<>>)

----------------------------------------------------------------------------
(* carve_rectangles *)

\* Variant of any_ones that looks at the first row only.
any_ones_FirstRow(gr) == 0 \in DOMAIN gr /\ \E c \in DOMAIN gr[0] : gr[0][c] = 1

any_ones(gr) == \E r \in DOMAIN gr : \E c \in DOMAIN gr[r] : gr[r][c] = 1

\* candidates.sort(key=area, reverse=True)
\* (reverse=True keeps the original order of equal keys)
CandidateKey(r) == <<0 - RectArea(r)>>
\* Variant of SortCandidates: an ascending sort that is then reversed, which
\* puts the last of several equally large candidates first.
SortCandidates_LastOfTies(cands) ==
    LET AreaKey(r) == <<RectArea(r)>>
        asc == StableSort(cands, AreaKey)
    IN [i \in 1..Len(asc) |-> asc[Len(asc) + 1 - i]]
SortCandidates(cands) == StableSort(cands, CandidateKey)

\* Off-by-one variant of ZeroRect: also clears the row below the rectangle.
ZeroRect_ExtraRow(gr, rect) ==
    [r \in DOMAIN gr |-> [c \in DOMAIN gr[r] |->
        IF r >= rect[1] /\ r <= rect[3] + 1 /\ c >= rect[2] /\ c <= rect[4]
        THEN 0 ELSE gr[r][c]]]

\* g[r][c] = 0 for every cell of the chosen rectangle
ZeroRect(gr, rect) ==
    [r \in DOMAIN gr |-> [c \in DOMAIN gr[r] |->
        IF r >= rect[1] /\ r <= rect[3] /\ c >= rect[2] /\ c <= rect[4]
        THEN 0 ELSE gr[r][c]]]

\* out.sort(key=lambda r: (r[0], r[1], area))
OutKey(r) == <<r[1], r[2], RectArea(r)>>
SortOut(rs) == StableSort(rs, OutKey)

RECURSIVE CarveLoop(_, _)
CarveLoop(gr, acc) ==
    IF ~any_ones(gr) THEN acc
    ELSE LET candidates == SortCandidates(enumerate_histogram_rectangles(gr))
         IN IF candidates = <<>> THEN acc
            ELSE CarveLoop(ZeroRect(gr, candidates[1]), Append(acc, candidates[1]))

carve_rectangles(gr) == SortOut(CarveLoop(gr, <<>>))

\* One iteration of the while loop of carve_rectangles.
CarveIterate ==
    /\ pc = "carve"
    /\ any_ones(g)
    /\ LET candidates == SortCandidates(enumerate_histogram_rectangles(g))
       IN /\ candidates # <<>>
          /\ out' = Append(out, candidates[1])
          /\ g' = ZeroRect(g, candidates[1])
    /\ UNCHANGED <<pc, grid, unionVars, sheetVars, tableVars, dispatchVars,
                   runVars, flowVars, areaVars,
                   scanVars, noteVars>>

\* Loop exit (no 1 left, or no candidate), final sort and return.
CarveReturn ==
    /\ pc = "carve"
    /\ \/ ~any_ones(g)
       \/ enumerate_histogram_rectangles(g) = <<>>
    /\ out' = SortOut(out)
    /\ pc' = "carved"
    /\ UNCHANGED <<grid, g, unionVars, sheetVars, tableVars, dispatchVars,
                   runVars, flowVars, areaVars,
                   scanVars, noteVars>>

InitCarve ==
    /\ pc = "carve"
    /\ grid \in Grids
    /\ g = grid
    /\ out = <<>>
    /\ UnionIdle
    /\ SheetIdle
    /\ DispatchIdle
    /\ RunIdle
    /\ FlowIdle
    /\ AreaIdle
    /\ ScanIdle
    /\ NoteIdle

NextCarve == CarveIterate \/ CarveReturn

SpecCarve == InitCarve /\ [][NextCarve]_vars

\* The while loop is the only thing carve_rectangles runs, so an enabled
\* iteration or return is eventually taken: weak fairness of NextCarve.  In
\* every state with pc = "carve" one of the two actions is enabled (the guard
\* of CarveReturn is the negation of the guard of CarveIterate) and changes
\* out or pc, and in no other state is either enabled, so ENABLED
\* <<NextCarve>>_vars is written out as pc = "carve".
CarveFairness == []<>(pc # "carve") \/ []<><<NextCarve>>_vars

SpecCarveFair == SpecCarve /\ CarveFairness

----------------------------------------------------------------------------
(* union_rects *)

\* events[row], in the order in which the loop over rects appended them
RECURSIVE EventsFrom(_, _, _)
EventsFrom(rs, row, i) ==
    IF i > Len(rs) THEN <<>>
    ELSE LET r == rs[i]
             add == IF r[1] = row THEN <<<<"add", <<r[2], r[4]>>>>>> ELSE <<>>
             rem == IF r[3] + 1 = row THEN <<<<"rem", <<r[2], r[4]>>>>>> ELSE <<>>
         IN add \o rem \o EventsFrom(rs, row, i + 1)
EventsAt(rs, row) == EventsFrom(rs, row, 1)

\* active.remove((s, e)): drops the first equal entry; ValueError is ignored
RECURSIVE RemoveFirst(_, _, _)
RemoveFirst(active, iv, i) ==
    IF i > Len(active) THEN active
    ELSE IF active[i] = iv
         THEN SubSeq(active, 1, i - 1) \o SubSeq(active, i + 1, Len(active))
         ELSE RemoveFirst(active, iv, i + 1)

RECURSIVE ApplyEvents(_, _, _)
ApplyEvents(active, evs, i) ==
    IF i > Len(evs) THEN active
    ELSE ApplyEvents(IF evs[i][1] = "add"
                     THEN Append(active, evs[i][2])
                     ELSE RemoveFirst(active, evs[i][2], 1),
                     evs, i + 1)

IntervalKey(iv) == <<iv[1], iv[2]>>

\* The loop of merge_intervals over the sorted list iv[1:].
RECURSIVE MergeFrom(_, _, _)
MergeFrom(iv, i, acc) ==
    IF i > Len(iv) THEN acc
    ELSE LET s == iv[i][1]
             e == iv[i][2]
             last == acc[Len(acc)]
         IN IF s <= last[2] + 0
            THEN MergeFrom(iv, i + 1,
                     [acc EXCEPT ![Len(acc)] = <<last[1], Max2(last[2], e)>>])
            ELSE MergeFrom(iv, i + 1, Append(acc, <<s, e>>))

\* Variant of merge_intervals that merges nothing.
merge_intervals_KeepAll(iv) == iv

\* merge_intervals(iv) on the already sorted list (iv.sort() is SortActive)
merge_intervals(iv) ==
    IF iv = <<>> THEN <<>> ELSE MergeFrom(iv, 2, <<iv[1]>>)

\* iv.sort() inside merge_intervals sorts the active list in place
SortActive(active) == StableSort(active, IntervalKey)

\* Off-by-one variant of CloseRun: the run is closed at row instead of row - 1.
CloseRun_ToRow(prev_spans, prev_row, row) ==
    [i \in 1..Len(prev_spans) |->
        <<prev_row, prev_spans[i][1], row, prev_spans[i][2]>>]

\* for s, e in prev_spans: out_rects.append((prev_row, s, row - 1, e))
CloseRun(prev_spans, prev_row, row) ==
    [i \in 1..Len(prev_spans) |->
        <<prev_row, prev_spans[i][1], row - 1, prev_spans[i][2]>>]

\* for row in range(min_r, max_r + 2); prev_row = 0 stands for None
RECURSIVE SweepRows(_, _, _, _, _, _, _)
SweepRows(rs, row, max_r, active, prev_row, prev_spans, acc) ==
    IF row > max_r + 1 THEN acc
    ELSE LET act == SortActive(ApplyEvents(active, EventsAt(rs, row), 1))
             spans == merge_intervals(act)
         IN IF prev_row = 0
            THEN SweepRows(rs, row + 1, max_r, act, row, spans, acc)
            ELSE IF spans # prev_spans
                 THEN SweepRows(rs, row + 1, max_r, act, row, spans,
                                acc \o CloseRun(prev_spans, prev_row, row))
                 ELSE SweepRows(rs, row + 1, max_r, act, prev_row, prev_spans, acc)

union_rects(rs) ==
    IF rs = <<>> THEN <<>>
    ELSE LET min_r == SetMin({rs[i][1] : i \in 1..Len(rs)})
             max_r == SetMax({rs[i][3] : i \in 1..Len(rs)})
         IN SweepRows(rs, min_r, max_r, <<>>, 0, <<>>, <<>>)

\* Rectangles (top, left, bottom, right) with top <= bottom, left <= right.
RectsIn(maxRow, maxCol) ==
    {r \in (1..maxRow) \X (1..maxCol) \X (1..maxRow) \X (1..maxCol) :
        r[1] <= r[3] /\ r[2] <= r[4]}
RectLists ==
    UNION {[1..n -> RectsIn(MaxRectRow, MaxRectCol)] : n \in 0..MaxRects}

UnionRects ==
    /\ pc = "union"
    /\ out_rects' = union_rects(rects)
    /\ pc' = "unioned"
    /\ UNCHANGED <<carveVars, rects, sheetVars, tableVars, dispatchVars,
                   runVars, flowVars, areaVars,
                   scanVars, noteVars>>

InitUnion ==
    /\ pc = "union"
    /\ rects \in RectLists
    /\ out_rects = <<>>
    /\ CarveIdle
    /\ SheetIdle
    /\ DispatchIdle
    /\ RunIdle
    /\ FlowIdle
    /\ AreaIdle
    /\ ScanIdle
    /\ NoteIdle

NextUnion == UnionRects

SpecUnion == InitUnion /\ [][NextUnion]_vars

----------------------------------------------------------------------------
(* Cells (cell_utils.py).  A cell is blank, holds a text, or holds no text *)
(* but a non-white fill.                                                   *)

Blank == "blank"
Text == "text"
Fill == "fill"
CellKinds == {Blank, Text, Fill}

\* ws.cell(row=R, column=C); a cell that was never written is blank
WsCell(w, R, C) ==
    IF <<R, C>> \in DOMAIN w.cells THEN w.cells[<<R, C>>] ELSE Blank

\* the number 5 itself: the value of a numeric cell, and what a row holds
\* when the caller hands over values instead of display texts
NonStr == "<int 5>"
IsStr(v) == v # NonStr

\* str(v)
Str(v) == IF v = NonStr THEN "5" ELSE v

\* text.strip()
Strip(text) == IF text = "  int x;" THEN "int x;" ELSE text

\* format_value, then strip (strip_whitespace is on): a blank or merely
\* filled cell shows "", a number its digits, a text cell its text
cell_display_value(cell) ==
    IF cell = Text THEN "x"
    ELSE IF cell \in {Blank, Fill} THEN ""
    ELSE Strip(Str(cell))
is_whitespace_only(text) == text = " "
no_fill(cell) == cell # Fill
cell_is_empty(cell) ==
    LET text == cell_display_value(cell)
    IN (text = "" \/ is_whitespace_only(text)) /\ no_fill(cell)

\* text and text.strip()
HasText(text) == text # "" /\ text # " "

collect_hidden(w) == <<w.hidden_rows, w.hidden_cols>>

----------------------------------------------------------------------------
(* Iteration over a Python set.  The order in which a set yields its       *)
(* elements is not part of the language; IterOrders are two such orders.   *)

IterOrders == {"asc", "desc"}

CellLess(a, b) == a[1] < b[1] \/ (a[1] = b[1] /\ a[2] < b[2])

RECURSIVE SetAsSeq(_, _)
SetAsSeq(S, order) ==
    IF S = {} THEN <<>>
    ELSE LET first == IF order = "asc"
                      THEN CHOOSE x \in S : \A y \in S : y = x \/ CellLess(x, y)
                      ELSE CHOOSE x \in S : \A y \in S : y = x \/ CellLess(y, x)
         IN <<first>> \o SetAsSeq(S \ {first}, order)

----------------------------------------------------------------------------
(* build_merged_lookup and build_nonempty_grid *)

InArea(ar, R, C) == R >= ar[1] /\ R <= ar[3] /\ C >= ar[2] /\ C <= ar[4]
AreaCells(ar) == (ar[1]..ar[3]) \X (ar[2]..ar[4])

\* Variant of MergesOfArea without the second test: a range that reaches
\* into the area from above or from the left is kept.
MergesOfArea_NoTopLeftTest(w, ar) ==
    {rng \in w.merged :
        ~(rng[3] < ar[1] \/ rng[1] > ar[3] \/ rng[4] < ar[2] \/ rng[2] > ar[4])}

\* The merged ranges that pass the two `continue` tests: they intersect the
\* area and their top-left cell is not above or left of it.
MergesOfArea(w, ar) ==
    {rng \in w.merged :
        /\ ~(rng[3] < ar[1] \/ rng[1] > ar[3] \/ rng[4] < ar[2] \/ rng[2] > ar[4])
        /\ ~(rng[1] < ar[1] \/ rng[2] < ar[2])}

\* lookup[(R, C)] = (r0, c0) for the cells of those ranges inside the area
build_merged_lookup(w, ar) ==
    LET keys == {rc \in AreaCells(ar) :
                    \E rng \in MergesOfArea(w, ar) : rc \in RectCells(rng)}
    IN [rc \in keys |->
            LET rng == CHOOSE m \in MergesOfArea(w, ar) : rc \in RectCells(m)
            IN <<rng[1], rng[2]>>]

\* merged_coords that keeps only the first row of each range
merged_coords_FirstRow(w, ar) ==
    {<<Max2(ar[1], rng[1]), Max2(ar[2], rng[2]),
       Max2(ar[1], rng[1]), Min2(ar[4], rng[4])>> : rng \in MergesOfArea(w, ar)}

\* merged_coords: the part of each such range that lies inside the area
merged_coords(w, ar) ==
    {<<Max2(ar[1], rng[1]), Max2(ar[2], rng[2]),
       Min2(ar[3], rng[3]), Min2(ar[4], rng[4])>> : rng \in MergesOfArea(w, ar)}

\* first pass: one cell of the grid
FirstPass(w, policy, R, C) ==
    IF policy = "exclude"
       /\ (R \in collect_hidden(w)[1] \/ C \in collect_hidden(w)[2])
    THEN 0
    ELSE IF cell_is_empty(WsCell(w, R, C)) THEN 0 ELSE 1

\* merged influence: found_nonempty of one clipped range
found_nonempty(w, ar, m) ==
    \E rc \in RectCells(m) :
        /\ InArea(ar, rc[1], rc[2])
        /\ ~cell_is_empty(WsCell(w, rc[1], rc[2]))

build_nonempty_grid(w, ar, policy) ==
    LET r0 == ar[1]
        c0 == ar[2]
        rows == ar[3] - ar[1] + 1
        cols == ar[4] - ar[2] + 1
    IN [rr \in 0..rows - 1 |-> [cc \in 0..cols - 1 |->
          IF \E m \in merged_coords(w, ar) :
                /\ found_nonempty(w, ar, m)
                /\ <<r0 + rr, c0 + cc>> \in RectCells(m)
                /\ InArea(ar, r0 + rr, c0 + cc)
          THEN 1
          ELSE FirstPass(w, policy, r0 + rr, c0 + cc)]]

----------------------------------------------------------------------------
(* grid_to_tables *)

\* The test applied to one cell while a row or a column is scanned for
\* emptiness: non-top-left members of a merged range are skipped.
CellBlocksEmptiness(w, lookup, row_num, col_num) ==
    IF <<row_num, col_num>> \in DOMAIN lookup
       /\ lookup[<<row_num, col_num>>] # <<row_num, col_num>>
    THEN FALSE
    ELSE LET cell == WsCell(w, row_num, col_num)
             has_text == HasText(cell_display_value(cell))
             has_fill == ~no_fill(cell)
         IN has_text \/ has_fill

empty_rows(w, ar) ==
    LET lookup == build_merged_lookup(w, ar)
    IN {r \in 0..(ar[3] - ar[1]) :
          \A c \in 0..(ar[4] - ar[2]) :
              ~CellBlocksEmptiness(w, lookup, ar[1] + r, ar[2] + c)}

empty_cols(w, ar) ==
    LET lookup == build_merged_lookup(w, ar)
    IN {c \in 0..(ar[4] - ar[2]) :
          \A r \in 0..(ar[3] - ar[1]) :
              ~CellBlocksEmptiness(w, lookup, ar[1] + r, ar[2] + c)}

Abs(x) == IF x < 0 THEN 0 - x ELSE x

\* is_connected without the empty-row test on vertical steps
is_connected_NoRowTest(er, ec, r1, c1, r2, c2) ==
    IF r1 = r2
    THEN ~(Min2(c1, c2) \in ec \/ Max2(c1, c2) \in ec)
    ELSE IF c1 = c2
    THEN TRUE
    ELSE IF Abs(r2 - r1) = 1 /\ Abs(c2 - c1) = 1
    THEN LET h_path_ok == ~(c1 \in ec \/ c2 \in ec) /\ r1 \notin er
             v_path_ok == ~(r1 \in er \/ r2 \in er) /\ c1 \notin ec
         IN h_path_ok \/ v_path_ok
    ELSE FALSE

is_connected(er, ec, r1, c1, r2, c2) ==
    IF r1 = r2
    THEN ~(Min2(c1, c2) \in ec \/ Max2(c1, c2) \in ec)
    ELSE IF c1 = c2
    THEN ~(Min2(r1, r2) \in er \/ Max2(r1, r2) \in er)
    ELSE IF Abs(r2 - r1) = 1 /\ Abs(c2 - c1) = 1
    THEN LET h_path_ok == ~(c1 \in ec \/ c2 \in ec) /\ r1 \notin er
             v_path_ok == ~(r1 \in er \/ r2 \in er) /\ c1 \notin ec
         IN h_path_ok \/ v_path_ok
    ELSE FALSE

\* neighbour offsets in the order of the for loop
Dirs == << <<1, 0>>, <<-1, 0>>, <<0, 1>>, <<0, -1>>,
           <<1, 1>>, <<1, -1>>, <<-1, 1>>, <<-1, -1>> >>

\* for dr, dc in (...): enqueue the unseen, connected neighbours of cell rc
RECURSIVE VisitNeighbours(_, _, _, _, _, _)
VisitNeighbours(gr, er, ec, rc, k, st) ==
    IF k > Len(Dirs) THEN st
    ELSE LET nr == rc[1] + Dirs[k][1]
             nc == rc[2] + Dirs[k][2]
         IN IF /\ 0 <= nr /\ nr < Rows(gr) /\ 0 <= nc /\ nc < Cols(gr)
               /\ gr[nr][nc] = 1
               /\ <<nr, nc>> \notin st.seen
               /\ is_connected(er, ec, rc[1], rc[2], nr, nc)
            THEN VisitNeighbours(gr, er, ec, rc, k + 1,
                     [q |-> Append(st.q, <<nr, nc>>),
                      seen |-> st.seen \cup {<<nr, nc>>},
                      comp |-> st.comp \cup {<<nr, nc>>}])
            ELSE VisitNeighbours(gr, er, ec, rc, k + 1, st)

\* while q: rr, cc = q.popleft() ...
RECURSIVE Flood(_, _, _, _)
Flood(gr, er, ec, st) ==
    IF st.q = <<>> THEN st
    ELSE Flood(gr, er, ec,
               VisitNeighbours(gr, er, ec, Head(st.q), 1,
                               [st EXCEPT !.q = Tail(st.q)]))

\* for r in range(R): for c in range(C): start a component at every unseen 1
RECURSIVE ScanCells(_, _, _, _, _, _)
ScanCells(gr, er, ec, i, seen, comps) ==
    IF i >= Rows(gr) * Cols(gr) THEN comps
    ELSE LET r == i \div Cols(gr)
             c == i % Cols(gr)
         IN IF gr[r][c] = 1 /\ <<r, c>> \notin seen
            THEN LET st == Flood(gr, er, ec,
                                 [q |-> << <<r, c>> >>,
                                  seen |-> seen \cup {<<r, c>>},
                                  comp |-> {<<r, c>>}])
                 IN ScanCells(gr, er, ec, i + 1, st.seen, Append(comps, st.comp))
            ELSE ScanCells(gr, er, ec, i + 1, seen, comps)

\* Variant of Components whose scan starts at the second cell of the grid.
Components_FromSecondCell(gr, er, ec) == ScanCells(gr, er, ec, 1, {}, <<>>)

Components(gr, er, ec) == ScanCells(gr, er, ec, 0, {}, <<>>)

\* rectangles_for_component: for (r, c) in comp: g[r][c] = 1, then carve
RECURSIVE MarkCells(_, _, _)
MarkCells(gr, cells, i) ==
    IF i > Len(cells) THEN gr
    ELSE MarkCells([gr EXCEPT ![cells[i][1]][cells[i][2]] = 1], cells, i + 1)

rectangles_for_component(comp, R, C, order) ==
    carve_rectangles(MarkCells([r \in 0..R - 1 |-> [c \in 0..C - 1 |-> 0]],
                               SetAsSeq(comp, order), 1))

\* min(... for r, c in comp) and max(...): one pass over the set
RECURSIVE FoldMin(_, _, _, _)
FoldMin(cells, k, i, best) ==
    IF i > Len(cells) THEN best
    ELSE FoldMin(cells, k, i + 1, IF cells[i][k] < best THEN cells[i][k] ELSE best)

RECURSIVE FoldMax(_, _, _, _)
FoldMax(cells, k, i, best) ==
    IF i > Len(cells) THEN best
    ELSE FoldMax(cells, k, i + 1, IF cells[i][k] > best THEN cells[i][k] ELSE best)

\* min(...) that stops at the first element the set yields
CompMin_First(cells, k) == cells[1][k]

CompMin(cells, k) == FoldMin(cells, k, 2, cells[1][k])

\* max(...) that keeps the last element the set yields
CompMax_Last(cells, k) == cells[Len(cells)][k]

CompMax(cells, k) == FoldMax(cells, k, 2, cells[1][k])

\* The dict appended to tables for one component.
TableOf(comp, ar, R, C, order) ==
    LET r0 == ar[1]
        c0 == ar[2]
        r1 == ar[3]
        c1 == ar[4]
        cells == SetAsSeq(comp, order)
        rects_local == rectangles_for_component(comp, R, C, order)
        rects_sheet == [i \in 1..Len(rects_local) |->
                          <<r0 + rects_local[i][1], c0 + rects_local[i][2],
                            r0 + rects_local[i][3], c0 + rects_local[i][4]>>]
        bbox == <<r0 + CompMin(cells, 1), c0 + CompMin(cells, 2),
                  r0 + CompMax(cells, 1), c0 + CompMax(cells, 2)>>
        mask == {<<r0 + cells[i][1], c0 + cells[i][2]>> : i \in
                    {j \in 1..Len(cells) :
                        InArea(ar, r0 + cells[j][1], c0 + cells[j][2])}}
    IN [rects |-> rects_sheet,
        bbox |-> <<Max2(bbox[1], r0), Max2(bbox[2], c0),
                   Min2(bbox[3], r1), Min2(bbox[4], c1)>>,
        mask |-> mask]

\* tables.sort(key=lambda t: (t["bbox"][0], t["bbox"][1]))
TableKey(t) == <<t.bbox[1], t.bbox[2]>>

grid_to_tables(w, ar, policy, order) ==
    LET gr == build_nonempty_grid(w, ar, policy)
        comps == Components(gr, empty_rows(w, ar), empty_cols(w, ar))
        unsorted == [i \in 1..Len(comps) |->
                        TableOf(comps[i], ar, Rows(gr), Cols(gr), order)]
    IN StableSort(unsorted, TableKey)

----------------------------------------------------------------------------
(* The worksheets and areas the detection is run on *)

SheetDims ==
    {d \in (1..MaxSheetCells) \X (1..MaxSheetCells) : d[1] * d[2] <= MaxSheetCells}

\* ranges of at least two cells inside a sheet of d[1] rows and d[2] columns
MergeRanges(d) ==
    {m \in (1..d[1]) \X (1..d[2]) \X (1..d[1]) \X (1..d[2]) :
        m[1] <= m[3] /\ m[2] <= m[4] /\ RectArea(m) >= 2}

\* ws.merged_cells.ranges: merged ranges never overlap
RECURSIVE MergeSets(_, _)
MergeSets(d, k) ==
    IF k = 0 THEN {{}}
    ELSE LET fewer == MergeSets(d, k - 1)
         IN fewer \cup
            {s \cup {m} : <<s, m>> \in
                {p \in fewer \X MergeRanges(d) :
                    \A x \in p[1] : RectCells(x) \cap RectCells(p[2]) = {}}}

\* the print areas: the whole sheet, or the sheet without its first or its
\* last row and column
AreasOf(d) ==
    {<<1, 1, d[1], d[2]>>} \cup
    (IF d[1] >= 2 /\ d[2] >= 2
     THEN {<<2, 2, d[1], d[2]>>, <<1, 1, d[1] - 1, d[2] - 1>>}
     ELSE {})

\* hidden rows and columns with the policy they are read under; under
\* "ignore" the code never looks at them
HiddenOf(d) ==
    {<<{}, {}, "ignore">>}
    \cup {<<{r}, {}, "exclude">> : r \in 1..d[1]}
    \cup {<<{}, {c}, "exclude">> : c \in 1..d[2]}

\* grid_two_separate of the tests as a sheet: a 2 x 2 block at rows 1-2,
\* columns 1-2 and a 2 x 2 block at rows 3-4, columns 3-4
grid_two_separate ==
    [cells |-> [rc \in (1..4) \X (1..4) |->
                   IF (rc[1] <= 2) = (rc[2] <= 2) THEN Text ELSE Blank],
     merged |-> {}, hidden_rows |-> {}, hidden_cols |-> {}, borders |-> {}]

\* worksheet_with_empty_rows of the tests: A1:B5 with row 3 empty
SplitExample ==
    [cells |-> [rc \in (1..5) \X (1..2) |-> IF rc[1] = 3 THEN Blank ELSE Text],
     merged |-> {}, hidden_rows |-> {}, hidden_cols |-> {}, borders |-> {}]

\* the A1:C3 sheets of the tests, without merged ranges, read as a whole
\* and from B2
PlainSquares == [(1..3) \X (1..3) -> {Blank, Text}]
SquareAreas == {<<1, 1, 3, 3>>, <<2, 2, 3, 3>>}

\* The detection reads a cell only through cell_is_empty and the has_text or
\* has_fill test, and a filled cell without text gives the same answers as a
\* text cell: the sheets of the detection hold blank and text cells.
DetectionKinds == {Blank, Text}

\* merging a range clears every cell of it but the top-left one
MergeCleared(cs, ms) ==
    \A m \in ms : \A rc \in RectCells(m) :
        rc = <<m[1], m[2]>> \/ cs[rc] = Blank

BuildNonemptyGrid ==
    /\ pc = "sheet"
    /\ nonempty' = build_nonempty_grid(ws, area, hidden_policy)
    /\ pc' = "grid"
    /\ UNCHANGED <<carveVars, unionVars, sheetVars, tables, dispatchVars,
                   runVars, flowVars, areaVars,
                   scanVars, noteVars>>

GridToTables ==
    /\ pc = "sheet"
    /\ \E order \in IterOrders :
          tables' = grid_to_tables(ws, area, hidden_policy, order)
    /\ pc' = "tables"
    /\ UNCHANGED <<carveVars, unionVars, sheetVars, nonempty, dispatchVars,
                   runVars, flowVars, areaVars,
                   scanVars, noteVars>>

InitTables ==
    /\ pc = "sheet"
    /\ \/ \E d \in SheetDims :
            \E ms \in MergeSets(d, MaxMerges) :
            \E cs \in [(1..d[1]) \X (1..d[2]) -> DetectionKinds] :
            \E ar \in AreasOf(d) :
            \E h \in HiddenOf(d) :
                /\ MergeCleared(cs, ms)
                /\ ws = [cells |-> cs, merged |-> ms,
                         hidden_rows |-> h[1], hidden_cols |-> h[2],
                         borders |-> {}]
                /\ area = ar
                /\ hidden_policy = h[3]
       \/ /\ ws = SplitExample
          /\ area = <<1, 1, 5, 2>>
          /\ hidden_policy = "ignore"
       \/ /\ ws = grid_two_separate
          /\ area = <<1, 1, 4, 4>>
          /\ hidden_policy = "ignore"
       \/ \E cs \in PlainSquares : \E ar \in SquareAreas :
             /\ ws = [cells |-> cs, merged |-> {},
                      hidden_rows |-> {}, hidden_cols |-> {}, borders |-> {}]
             /\ area = ar
             /\ hidden_policy = "ignore"
    /\ nonempty = <<>>
    /\ tables = <<>>
    /\ CarveIdle
    /\ UnionIdle
    /\ DispatchIdle
    /\ RunIdle
    /\ FlowIdle
    /\ AreaIdle
    /\ ScanIdle
    /\ NoteIdle

NextTables == BuildNonemptyGrid \/ GridToTables

SpecTables == InitTables /\ [][NextTables]_vars

----------------------------------------------------------------------------
(* Cell values and texts (cell_utils.py, table_formatting.py).  A text is *)
(* a string; what the code learns from a text by substring or pattern     *)
(* search is tabulated for the texts the sheets of the model hold.        *)

\* md_escape(s, "safe"): a backslash before each reserved character
md_escape(s) ==
    CASE s = "public class Foo {" -> "public class Foo \\{"
      [] s = "}" -> "\\}"
      [] OTHER -> s

\* NUMERIC_PATTERN
numeric_like(s) == s = "5"

\* normalize_numeric_text with currency_symbol, numeric_thousand_sep and
\* percent_format all "keep": a numeric text comes back as it is
normalize_numeric_text(s) == IF ~numeric_like(s) THEN s ELSE s

\* any(kw in text_lower for kw in code_keywords)
has_keyword(text) ==
    text \in {"public class Foo {", "public class Foo \\{"}

\* the members of code_symbols found in text
SymbolsIn(text) ==
    CASE text \in {"public class Foo {", "public class Foo \\{"} -> {"{"}
      [] text \in {"  int x;", "int x;"} -> {";"}
      [] text \in {"}", "\\}"} -> {"}"}
      [] OTHER -> {}

\* re.search(annotation_pattern, text); text_stripped.startswith('@') ...
has_annotation(text) == text = "@Override"
StartsWithAnnotation(text) == text = "@Override"

is_source_code(text) ==
    IF text = "" \/ Strip(text) = "" THEN FALSE
    ELSE LET has_symbol == SymbolsIn(text) # {}
             symbol_count == Cardinality(SymbolsIn(text))
         IN IF StartsWithAnnotation(Strip(text)) THEN TRUE
            ELSE IF has_annotation(text) /\ (has_keyword(text) \/ has_symbol) THEN TRUE
            ELSE IF has_keyword(text) /\ has_symbol THEN TRUE
            ELSE IF symbol_count >= 2 THEN TRUE
            ELSE has_keyword(text) /\ (has_symbol \/ has_annotation(text))

\* for val in row: if val and val.strip(): row_text = val.strip(); break
\* (a value without strip raises AttributeError)
RECURSIVE FirstText(_, _)
FirstText(row, i) ==
    IF i > Len(row) THEN [raised |-> FALSE, text |-> ""]
    ELSE IF row[i] = "" THEN FirstText(row, i + 1)
    ELSE IF ~IsStr(row[i]) THEN [raised |-> TRUE, text |-> ""]
    ELSE IF Strip(row[i]) # "" THEN [raised |-> FALSE, text |-> Strip(row[i])]
    ELSE FirstText(row, i + 1)

\* the loop of build_code_block_from_rows over the rows
RECURSIVE CodeLines(_, _, _, _)
CodeLines(rows, i, is_code, lines) ==
    IF i > Len(rows) THEN [raised |-> FALSE, is_code |-> is_code, lines |-> lines]
    ELSE IF rows[i] = <<>>
    THEN CodeLines(rows, i + 1, is_code, IF is_code THEN Append(lines, "") ELSE lines)
    ELSE LET ft == FirstText(rows[i], 1)
         IN IF ft.raised THEN [raised |-> TRUE, is_code |-> is_code, lines |-> lines]
            ELSE IF ft.text # "" /\ is_source_code(ft.text)
            THEN CodeLines(rows, i + 1, TRUE, Append(lines, ft.text))
            ELSE IF is_code /\ ft.text # ""
            THEN CodeLines(rows, i + 1, is_code, Append(lines, ft.text))
            ELSE IF is_code
            THEN CodeLines(rows, i + 1, is_code, Append(lines, ""))
            ELSE CodeLines(rows, i + 1, is_code, lines)

\* Variant of build_code_block_from_rows whose loop starts with is_code_block
\* set: every row is collected, whether a code line has been seen or not.
build_code_block_from_rows_FromFirstRow(rows) ==
    IF rows = <<>> THEN [status |-> "none", lines |-> <<>>]
    ELSE LET r == CodeLines(rows, 1, TRUE, <<>>)
         IN IF r.raised THEN [status |-> "raised", lines |-> <<>>]
            ELSE IF r.is_code /\ r.lines # <<>>
            THEN [status |-> "block", lines |-> r.lines]
            ELSE [status |-> "none", lines |-> <<>>]

\* "raised", "none" (None is returned) or "block" with the lines of the block
build_code_block_from_rows(rows) ==
    IF rows = <<>> THEN [status |-> "none", lines |-> <<>>]
    ELSE LET r == CodeLines(rows, 1, FALSE, <<>>)
         IN IF r.raised THEN [status |-> "raised", lines |-> <<>>]
            ELSE IF r.is_code /\ r.lines # <<>>
            THEN [status |-> "block", lines |-> r.lines]
            ELSE [status |-> "none", lines |-> <<>>]

\* is_code_block reads str(val), so it never raises
is_code_block(rows) ==
    LET as_str == [i \in 1..Len(rows) |->
                     [j \in 1..Len(rows[i]) |-> Str(rows[i][j])]]
    IN build_code_block_from_rows(as_str).status = "block"

\* make_markdown_table strips and joins every value of the rows: "raised"
\* when a row holds a value that is not a string, else the table is built
make_markdown_table(rows) ==
    IF rows = <<>> THEN "ok"
    ELSE IF \E i \in 1..Len(rows) : \E j \in 1..Len(rows[i]) : ~IsStr(rows[i][j])
    THEN "raised"
    ELSE "ok"

----------------------------------------------------------------------------
(* is_flow_table (mermaid_generator.py) *)

\* _v14_normalize_header_name: NFKC, casefold, blanks collapsed
normalize_header_name(v) ==
    CASE v = "From" -> "from"
      [] v = "FROM" -> "from"
      [] v = "To" -> "to"
      [] v = "Src" -> "src"
      [] v = "Label" -> "label"
      [] v = "Group" -> "group"
      [] v = "Note" -> "note"
      [] v = "public class Foo {" -> "public class foo {"
      [] OTHER -> v

\* the roles of a mermaid_columns mapping; a role without a name holds ""
Roles == {"from", "to", "label", "group", "note"}

\* opts.get("mermaid_columns", {"from": "From", "to": "To", "label": "Label",
\* "group": None, "note": None})
mermaid_columns(o) ==
    IF "mermaid_columns" \in DOMAIN o THEN o.mermaid_columns
    ELSE [from |-> "From", to |-> "To", label |-> "Label", group |-> "",
          note |-> ""]

\* the index of the last header cell named want: a later match overwrites
FirstNamed_Last(header, want) ==
    LET hits == {i \in 1..Len(header) :
                    normalize_header_name(Str(header[i])) = want}
    IN IF hits = {} THEN 0 ELSE SetMax(hits)

\* the index of the first header cell named want, 0 if there is none
FirstNamed(header, want) ==
    LET hits == {i \in 1..Len(header) :
                    normalize_header_name(Str(header[i])) = want}
    IN IF hits = {} THEN 0 ELSE SetMin(hits)

\* _v14_resolve_columns_by_name: index[role] is the first header cell whose
\* normalized name is the role's normalized name (0: the role is not in index);
\* roles without a name are left out of norm_map
resolve_columns_by_name(header, mapping) ==
    LET index == [k \in Roles |->
                    IF mapping[k] = "" THEN 0
                    ELSE FirstNamed(header, normalize_header_name(mapping[k]))]
    IN IF index["from"] = 0 \/ index["to"] = 0
       THEN [ok |-> FALSE, index |-> NoColmap]
       ELSE [ok |-> TRUE, index |-> index]

\* "yes", "no", or "raised": the heuristic mode calls is_code_block, a name
\* that mermaid_generator.py neither defines nor imports (NameError)
is_flow_table(rows, o) ==
    IF o.mermaid_detect_mode = "none" THEN "no"
    ELSE IF rows = <<>> \/ rows[1] = <<>> THEN "no"
    ELSE IF o.mermaid_detect_mode = "column_headers"
    THEN IF ~o.header_detection THEN "no"
         ELSE IF \A i \in 1..Len(rows[1]) :
                    rows[1][i] = "" \/ Strip(Str(rows[1][i])) = ""
         THEN "no"
         ELSE IF resolve_columns_by_name(rows[1], mermaid_columns(o)).ok
         THEN "yes" ELSE "no"
    ELSE "raised"

----------------------------------------------------------------------------
(* extract_table and dispatch_table_output (table_extraction.py),          *)
(* format_table_as_text_or_nested (table_formatting.py)                    *)

RECURSIVE SortedSeq(_)
SortedSeq(S) ==
    IF S = {} THEN <<>> ELSE <<SetMin(S)>> \o SortedSeq(S \ {SetMin(S)})

Sides == {"left", "right", "top", "bottom"}
has_border(w, R, C) ==
    Cardinality({side \in Sides : <<R, C, side>> \in w.borders}) >= 2

\* the text of cell (R, C) after the merged-range handling and
\* normalize_numeric_text
CellText(w, lookup, o, R, C) ==
    LET own == cell_display_value(WsCell(w, R, C))
        text == IF <<R, C>> \in DOMAIN lookup
                THEN IF lookup[<<R, C>>] = <<R, C>> THEN own
                     ELSE IF o.merge_policy = "top_left_only" THEN ""
                     ELSE cell_display_value(
                              WsCell(w, lookup[<<R, C>>][1], lookup[<<R, C>>][2]))
                ELSE own
    IN normalize_numeric_text(text)

\* the columns among cols that hold data in some mask cell
UsedCols(w, mask, bbox, cols, lookup, o) ==
    SortedSeq({C \in cols :
        \E R \in bbox[1]..bbox[3] :
            /\ <<R, C>> \in mask
            /\ Strip(CellText(w, lookup, o, R, C)) # ""})

\* detect_table_title: the first cell, in rows min_row..min_row+2 and
\* columns min_col..min_col+9, that is the top-left of a merged range at
\* least 3 columns wide (inside the area) and holds a text
TitleCells(w, mask, bbox, lookup, ar) ==
    {rc \in (bbox[1]..Min2(bbox[1] + 2, bbox[3]))
            \X (bbox[2]..Min2(bbox[2] + 9, bbox[4])) :
        /\ rc \in mask
        /\ InArea(ar, rc[1], rc[2])
        /\ rc \in DOMAIN lookup
        /\ lookup[rc] = rc
        /\ \E rng \in w.merged :
              /\ rng[1] = rc[1] /\ rng[2] = rc[2]
              /\ Min2(rng[4], ar[4]) - rc[2] + 1 >= 3
        /\ Strip(cell_display_value(WsCell(w, rc[1], rc[2]))) # ""}

detect_table_title(w, mask, bbox, lookup, ar) ==
    LET found == TitleCells(w, mask, bbox, lookup, ar)
    IN IF found = {} THEN [title |-> "", cols |-> {}]
       ELSE LET rc == CHOOSE x \in found : \A y \in found : y = x \/ CellLess(x, y)
                rng == CHOOSE m \in w.merged : m[1] = rc[1] /\ m[2] = rc[2]
            IN [title |-> Strip(cell_display_value(WsCell(w, rc[1], rc[2]))),
                cols |-> rc[2]..Min2(rng[4], ar[4])]

\* row_is_empty of extract_table
RowIsEmpty(w, mask, used, lookup, o, R) ==
    \A i \in 1..Len(used) :
        \/ <<R, used[i]>> \notin mask
        \/ LET rc == <<R, used[i]>>
               own == cell_display_value(WsCell(w, R, used[i]))
           IN IF rc \in DOMAIN lookup
              THEN IF lookup[rc] = rc THEN Strip(own) = ""
                   ELSE IF o.merge_policy # "top_left_only"
                   THEN Strip(cell_display_value(
                                  WsCell(w, lookup[rc][1], lookup[rc][2]))) = ""
                   ELSE TRUE
              ELSE Strip(own) = ""

\* row_vals of one row
RowVals(w, mask, used, lookup, o, R) ==
    [i \in 1..Len(used) |->
        IF <<R, used[i]>> \notin mask THEN ""
        ELSE md_escape(CellText(w, lookup, o, R, used[i]))]

\* the loop over the rows; count is count_cells.  The return inside the
\* loop hands back three values, the return after it four (arity).
RECURSIVE ExtractRows(_, _, _, _, _, _, _, _, _)
ExtractRows(w, mask, used, lookup, o, R, max_row, rows, count) ==
    IF R > max_row THEN [md_rows |-> rows, truncated |-> FALSE, arity |-> 4]
    ELSE IF RowIsEmpty(w, mask, used, lookup, o, R)
    THEN ExtractRows(w, mask, used, lookup, o, R + 1, max_row, rows, count)
    ELSE IF count + Len(used) > o.max_cells_per_table
    THEN [md_rows |-> rows, truncated |-> TRUE, arity |-> 3]
    ELSE ExtractRows(w, mask, used, lookup, o, R + 1, max_row,
                     Append(rows, RowVals(w, mask, used, lookup, o, R)),
                     count + Len(used))

extract_table(w, table, o, lookup, print_area) ==
    LET mask == {rc \in table.mask : InArea(print_area, rc[1], rc[2])}
        bbox == <<Max2(table.bbox[1], print_area[1]), Max2(table.bbox[2], print_area[2]),
                  Min2(table.bbox[3], print_area[3]), Min2(table.bbox[4], print_area[4])>>
        title == detect_table_title(w, mask, bbox, lookup, print_area)
        candidate_cols == {C \in bbox[2]..bbox[4] :
                              C \notin title.cols
                              /\ \E R \in bbox[1]..bbox[3] : <<R, C>> \in mask}
        used == UsedCols(w, mask, bbox, candidate_cols, lookup, o)
    IN IF used = <<>>
       THEN [md_rows |-> <<>>, truncated |-> FALSE, arity |-> 4,
             table_title |-> title.title]
       ELSE LET r == ExtractRows(w, mask, used, lookup, o, bbox[1], bbox[3], <<>>, 0)
            IN [md_rows |-> r.md_rows, truncated |-> r.truncated,
                arity |-> r.arity, table_title |-> title.title]

\* [i for i, val in enumerate(row) if val and val.strip()]; "raised" when a
\* value of the row has no strip
NonEmptyIdx(row) ==
    IF \E i \in 1..Len(row) : row[i] # "" /\ ~IsStr(row[i]) THEN [raised |-> TRUE, idx |-> {}]
    ELSE [raised |-> FALSE,
          idx |-> {i \in 1..Len(row) : row[i] # "" /\ Strip(row[i]) # ""}]

\* the loop that decides between the nested outline and the table
RECURSIVE NestedScan(_, _)
NestedScan(rows, i) ==
    IF i > Len(rows) THEN "nested"
    ELSE IF rows[i] = <<>> THEN NestedScan(rows, i + 1)
    ELSE LET ne == NonEmptyIdx(rows[i])
         IN IF ne.raised THEN "raised"
            ELSE IF Cardinality(ne.idx) <= 1 THEN NestedScan(rows, i + 1)
            ELSE IF SetMin(ne.idx) > 1
                    /\ ne.idx = SetMin(ne.idx)..SetMax(ne.idx)
            THEN NestedScan(rows, i + 1)
            ELSE "table"

\* the single-line text test on the first row
IsSingleLineText(w, table, rows, used, lookup, o) ==
    LET ne == NonEmptyIdx(rows[1])
        min_row == table.bbox[1]
    IN /\ Cardinality(ne.idx) = 1
       /\ LET k == SetMin(ne.idx)
          IN /\ k <= Len(used)
             /\ ~has_border(w, min_row, used[k])
             /\ \A j \in 1..Len(used) :
                   \/ j = k
                   \/ <<min_row, used[j]>> \notin table.mask
                   \/ /\ Strip(normalize_numeric_text(
                               cell_display_value(WsCell(w, min_row, used[j])))) = ""
                      /\ ~has_border(w, min_row, used[j])

\* used_cols of format_table_as_text_or_nested
FormatUsedCols(w, table, lookup, o) ==
    UsedCols(w, table.mask, table.bbox,
             {C \in table.bbox[2]..table.bbox[4] :
                 \E R \in table.bbox[1]..table.bbox[3] : <<R, C>> \in table.mask},
             lookup, o)

format_table_as_text_or_nested_NoUsedCols(w, table, rows, o, lookup) ==
    IF rows = <<>> THEN "empty"
    ELSE LET used == FormatUsedCols(w, table, lookup, o)
         IN IF NonEmptyIdx(rows[1]).raised THEN "raised"
            ELSE IF IsSingleLineText(w, table, rows, used, lookup, o) THEN "text"
            ELSE LET code == build_code_block_from_rows(rows)
                 IN IF code.status = "raised" THEN "raised"
                    ELSE IF code.status = "block" THEN "code"
                    ELSE NestedScan(rows, 1)

format_table_as_text_or_nested(w, table, rows, o, lookup) ==
    IF rows = <<>> THEN "empty"
    ELSE LET used == FormatUsedCols(w, table, lookup, o)
         IN IF used = <<>> THEN "empty"
            ELSE IF NonEmptyIdx(rows[1]).raised THEN "raised"
            ELSE IF IsSingleLineText(w, table, rows, used, lookup, o) THEN "text"
            ELSE LET code == build_code_block_from_rows(rows)
                 IN IF code.status = "raised" THEN "raised"
                    ELSE IF code.status = "block" THEN "code"
                    ELSE NestedScan(rows, 1)

\* "  " * n
RECURSIVE Spaces(_)
Spaces(n) == IF n = 0 THEN "" ELSE "  " \o Spaces(n - 1)

\* the line appended to nested_lines for a row that keeps the outline: ""
\* for a row without a non-empty cell, else the indent of the first
\* non-empty column (0-based index) and the value of that column
NestedLine(row) ==
    IF row = <<>> \/ NonEmptyIdx(row).idx = {} THEN ""
    ELSE Spaces(SetMin(NonEmptyIdx(row).idx) - 1)
         \o row[SetMin(NonEmptyIdx(row).idx)]

\* the output returned with the format: the value of the single cell of the
\* first row for text, nested_lines (joined with newlines by the code) for
\* nested; the blocks of the other formats are not taken apart
FormatOutput(rows, fmt) ==
    CASE fmt = "text" -> rows[1][SetMin(NonEmptyIdx(rows[1]).idx)]
      [] fmt = "nested" -> [i \in 1..Len(rows) |-> NestedLine(rows[i])]
      [] fmt = "empty" -> ""
      [] fmt = "code" -> build_code_block_from_rows(rows).lines
      [] fmt = "raised" -> "<no value>"
      [] OTHER -> "<" \o fmt \o " block>"

\* step 2 of the dispatcher: "mermaid", "no" (not a flow table, or mermaid
\* is off) or "raised" (the except branch is taken)
MermaidStep(rows, o) ==
    IF ~o.mermaid_enabled THEN "no"
    ELSE IF o.mermaid_detect_mode \notin {"column_headers", "heuristic"} THEN "no"
    ELSE IF is_flow_table(rows, o) = "raised" THEN "raised"
    ELSE IF is_flow_table(rows, o) = "no" THEN "no"
    ELSE IF o.mermaid_keep_source_table /\ make_markdown_table(rows) = "raised"
    THEN "raised"
    ELSE "mermaid"

\* Variant of dispatch_table_output that tries diagram detection whatever
\* dispatch_skip_code_and_mermaid_on_fallback says.
dispatch_table_output_NeverSkips(w, table, rows, o, lookup) ==
    LET code == build_code_block_from_rows(rows)
        code_failed == code.status = "raised"
        mer == MermaidStep(rows, o)
        fmt == format_table_as_text_or_nested(w, table, rows, o, lookup)
    IN IF code.status = "block"
       THEN [ftype |-> "code", code_failed |-> FALSE, mermaid_failed |-> FALSE,
             output |-> FormatOutput(rows, "code")]
       ELSE IF mer = "mermaid"
       THEN [ftype |-> "mermaid", code_failed |-> code_failed,
             mermaid_failed |-> FALSE, output |-> FormatOutput(rows, "mermaid")]
       ELSE [ftype |-> IF fmt = "table" THEN (IF make_markdown_table(rows) = "raised"
                                              THEN "raised" ELSE "table")
                       ELSE fmt,
             code_failed |-> code_failed,
             mermaid_failed |-> mer = "raised",
             output |-> FormatOutput(rows, fmt)]

dispatch_table_output_TextFirst(w, table, rows, o, lookup) ==
    LET code == build_code_block_from_rows(rows)
        code_failed == code.status = "raised"
        mer == IF code_failed /\ o.dispatch_skip_code_and_mermaid_on_fallback
               THEN "skipped" ELSE MermaidStep(rows, o)
        fmt == format_table_as_text_or_nested(w, table, rows, o, lookup)
    IN IF fmt = "text"
       THEN [ftype |-> "text", code_failed |-> FALSE, mermaid_failed |-> FALSE,
             output |-> FormatOutput(rows, "text")]
       ELSE IF code.status = "block"
       THEN [ftype |-> "code", code_failed |-> FALSE, mermaid_failed |-> FALSE,
             output |-> FormatOutput(rows, "code")]
       ELSE IF mer = "mermaid"
       THEN [ftype |-> "mermaid", code_failed |-> code_failed,
             mermaid_failed |-> FALSE, output |-> FormatOutput(rows, "mermaid")]
       ELSE [ftype |-> IF fmt = "table" THEN (IF make_markdown_table(rows) = "raised"
                                              THEN "raised" ELSE "table")
                       ELSE fmt,
             code_failed |-> code_failed,
             mermaid_failed |-> mer = "raised",
             output |-> FormatOutput(rows, fmt)]

\* ftype is the format returned, or "raised" when an exception leaves the
\* function; code_failed and mermaid_failed tell which except branch ran
dispatch_table_output(w, table, rows, o, lookup) ==
    LET code == build_code_block_from_rows(rows)
        code_failed == code.status = "raised"
        mer == IF code_failed /\ o.dispatch_skip_code_and_mermaid_on_fallback
               THEN "skipped" ELSE MermaidStep(rows, o)
        fmt == format_table_as_text_or_nested(w, table, rows, o, lookup)
    IN IF code.status = "block"
       THEN [ftype |-> "code", code_failed |-> FALSE, mermaid_failed |-> FALSE,
             output |-> FormatOutput(rows, "code")]
       ELSE IF mer = "mermaid"
       THEN [ftype |-> "mermaid", code_failed |-> code_failed,
             mermaid_failed |-> FALSE, output |-> FormatOutput(rows, "mermaid")]
       ELSE [ftype |-> IF fmt = "table" THEN (IF make_markdown_table(rows) = "raised"
                                              THEN "raised" ELSE "table")
                       ELSE fmt,
             code_failed |-> code_failed,
             mermaid_failed |-> mer = "raised",
             output |-> FormatOutput(rows, fmt)]

----------------------------------------------------------------------------
(* Dispatching one table.  The sheets hold blank, filled, text and numeric *)
(* cells; the table is one that grid_to_tables finds on the sheet; the     *)
(* rows are what extract_table delivers for it ("extracted") or the cell   *)
(* values as they are, the way the tests hand literal rows over ("raw").   *)

MaxDispatchCells == 3

DispatchValues == {Blank, Fill, NonStr, "abc", "public class Foo {"}

DispatchDims ==
    {d \in (1..MaxDispatchCells) \X (1..MaxDispatchCells) :
        d[1] * d[2] <= MaxDispatchCells}

PlainSheet(cs, bs) ==
    [cells |-> cs, merged |-> {}, hidden_rows |-> {}, hidden_cols |-> {},
     borders |-> bs]

\* the table of three code lines in one column
FooExample ==
    (<<1, 1>> :> "public class Foo {") @@ (<<2, 1>> :> "  int x;")
    @@ (<<3, 1>> :> "}")

\* a header of two names over a row that starts with a text, a code line
\* or a number
HeaderPairs == {<<"From", "To">>, <<"To", "From">>, <<"From", "abc">>}
FlowHeaderOverCode ==
    {(<<1, 1>> :> h[1]) @@ (<<1, 2>> :> h[2])
     @@ (<<2, 1>> :> v) @@ (<<2, 2>> :> "abc") :
        h \in HeaderPairs,
        v \in {"abc", "public class Foo {", "@Override", NonStr}}

DispatchSheets ==
    UNION {[(1..d[1]) \X (1..d[2]) -> DispatchValues] : d \in DispatchDims}
    \cup {FooExample} \cup FlowHeaderOverCode

SheetArea(cs) ==
    <<1, 1, SetMax({rc[1] : rc \in DOMAIN cs}), SetMax({rc[2] : rc \in DOMAIN cs})>>

\* Border styles of a sheet: no cell has one, every cell has all four, or a
\* single cell has one side or two sides set
BorderChoices(cs) ==
    {{}, {<<rc[1], rc[2], side>> : rc \in DOMAIN cs, side \in Sides}}
SingleBorders(cs) ==
    {{<<rc[1], rc[2], side>> : side \in sd} :
        rc \in DOMAIN cs, sd \in {{"left"}, {"left", "top"}}}

DispatchOpts ==
    {[mermaid_enabled |-> m[1], mermaid_detect_mode |-> m[2],
      mermaid_keep_source_table |-> m[3],
      dispatch_skip_code_and_mermaid_on_fallback |-> skip,
      header_detection |-> TRUE, merge_policy |-> "top_left_only",
      max_cells_per_table |-> max_cells_per_table] :
        m \in {<<FALSE, "shapes", TRUE>>}
              \cup ({TRUE} \X {"column_headers", "heuristic"} \X BOOLEAN),
        skip \in BOOLEAN}

\* the values of the table's cells as they are: rows min_row..max_row over
\* the columns of the mask
RawValue(cell) == IF cell \in {Blank, Fill} THEN "" ELSE cell
RawRows(w, table) ==
    LET cols == SortedSeq({rc[2] : rc \in table.mask})
    IN [i \in 1..(table.bbox[3] - table.bbox[1] + 1) |->
          [j \in 1..Len(cols) |->
              IF <<table.bbox[1] + i - 1, cols[j]>> \in table.mask
              THEN RawValue(WsCell(w, table.bbox[1] + i - 1, cols[j]))
              ELSE ""]]

InitDispatch ==
    /\ pc = "dispatch"
    /\ \E cs \in DispatchSheets :
       \* the tables of the sheet; borders play no part in their detection
       \E t \in SeqToSet(grid_to_tables(PlainSheet(cs, {}), SheetArea(cs),
                                        "ignore", "asc")) :
       \E how \in {"extracted", "raw"} :
          /\ \E bs \in BorderChoices(cs) \cup SingleBorders(cs) :
                ws = PlainSheet(cs, bs)
          /\ area = SheetArea(cs)
          /\ tbl = t
          /\ opts \in IF ws.borders \in BorderChoices(cs) THEN DispatchOpts
                      ELSE {NoOpts}
          /\ md_rows = IF how = "raw" THEN RawRows(ws, tbl)
                       ELSE extract_table(ws, tbl, opts,
                                build_merged_lookup(ws, area), area).md_rows
    /\ hidden_policy = "ignore"
    /\ nonempty = <<>>
    /\ tables = <<>>
    /\ result = "none"
    /\ CarveIdle
    /\ UnionIdle
    /\ RunIdle
    /\ FlowIdle
    /\ AreaIdle
    /\ ScanIdle
    /\ NoteIdle

Dispatch ==
    /\ pc = "dispatch"
    /\ result' = dispatch_table_output(ws, tbl, md_rows, opts,
                                       build_merged_lookup(ws, area))
    /\ pc' = "dispatched"
    /\ UNCHANGED <<carveVars, unionVars, sheetVars, tableVars, opts, tbl,
                   md_rows, runVars, flowVars, areaVars,
                   scanVars, noteVars>>

NextDispatch == Dispatch

SpecDispatch == InitDispatch /\ [][NextDispatch]_vars

----------------------------------------------------------------------------
(* The table loop of run (runner.py): every table of the area is          *)
(* extracted, dispatched and appended to the output.                      *)

MaxRunCells == 4
RunLimits == {1, 2, max_cells_per_table}
RunValues == {Blank, "abc", "}"}

RunDims ==
    {d \in (1..MaxRunCells) \X (1..MaxRunCells) : d[1] * d[2] <= MaxRunCells}

RunOpts ==
    {[mermaid_enabled |-> FALSE, mermaid_detect_mode |-> "shapes",
      mermaid_keep_source_table |-> TRUE,
      dispatch_skip_code_and_mermaid_on_fallback |-> TRUE,
      header_detection |-> TRUE, merge_policy |-> "top_left_only",
      max_cells_per_table |-> n] : n \in RunLimits}

InitRun ==
    /\ pc = "run"
    /\ \E d \in RunDims : \E cs \in [(1..d[1]) \X (1..d[2]) -> RunValues] :
          /\ ws = PlainSheet(cs, {})
          /\ area = SheetArea(cs)
    /\ hidden_policy = "ignore"
    /\ nonempty = <<>>
    /\ tables = grid_to_tables(ws, area, hidden_policy, "asc")
    /\ opts \in RunOpts
    /\ tbl = NoTable
    /\ md_rows = <<>>
    /\ result = "none"
    /\ table_id = 0
    /\ md_lines = <<>>
    /\ CarveIdle
    /\ UnionIdle
    /\ FlowIdle
    /\ AreaIdle
    /\ ScanIdle
    /\ NoteIdle

\* what extract_table hands back for the i-th table of the area
Extracted(i) ==
    extract_table(ws, tables[i], opts, build_merged_lookup(ws, area), area)

\* one round of "for tbl in tables".  Unpacking the result of extract_table
\* into four names raises ValueError when it holds three values, and an
\* exception that leaves dispatch_table_output leaves run as well.
RunTable ==
    /\ pc = "run"
    /\ table_id < Len(tables)
    /\ table_id' = table_id + 1
    /\ LET e == Extracted(table_id + 1)
           d == dispatch_table_output(ws, tables[table_id + 1], e.md_rows, opts,
                                      build_merged_lookup(ws, area))
       IN IF e.arity # 4
          THEN pc' = "crashed" /\ UNCHANGED md_lines
          ELSE IF e.md_rows = <<>>
          THEN /\ pc' = "run"
               /\ md_lines' = Append(md_lines,
                     [table |-> table_id + 1, ftype |-> "none", note |-> FALSE])
          ELSE IF d.ftype = "raised"
          THEN pc' = "crashed" /\ UNCHANGED md_lines
          ELSE /\ pc' = "run"
               /\ md_lines' = Append(md_lines,
                     [table |-> table_id + 1, ftype |-> d.ftype,
                      note |-> d.ftype = "table" /\ e.truncated])
    /\ UNCHANGED <<carveVars, unionVars, sheetVars, tableVars, dispatchVars,
                   flowVars, areaVars,
                   scanVars, noteVars>>

RunFinish ==
    /\ pc = "run"
    /\ table_id = Len(tables)
    /\ pc' = "done"
    /\ UNCHANGED <<carveVars, unionVars, sheetVars, tableVars, dispatchVars,
                   runVars, flowVars, areaVars,
                   scanVars, noteVars>>

NextRun == RunTable \/ RunFinish

SpecRun == InitRun /\ [][NextRun]_vars

----------------------------------------------------------------------------
(* build_mermaid (mermaid_generator.py), one data row at a time *)

\* Bounds of the flow tables: data rows of the build family, header cells of
\* the header family.
MaxFlowRows == 2
MaxHeaderCells == 3

\* _v14_sanitize_node_id: NFKC, every character outside [A-Za-z0-9_] becomes
\* "_", "" becomes "_", a leading digit gets a "_" prefix, "__" collapses
sanitize_node_id(name) ==
    CASE name = "a b" -> "a_b"
      [] name = "" -> "_"
      [] name = "5" -> "_5"
      [] OTHER -> name

\* the while loop of node_id: the first of base_i, base_(i+1), ... not taken
RECURSIVE FirstFree(_, _, _)
FirstFree(base, i, taken) ==
    IF (base \o "_" \o ToString(i)) \in taken
    THEN FirstFree(base, i + 1, taken)
    ELSE base \o "_" \o ToString(i)

\* the ids held by the dict: nodes.values()
NodeIds(ns) == {ns[i][2] : i \in 1..Len(ns)}
NodeNames(ns) == {ns[i][1] : i \in 1..Len(ns)}

\* node_id without the while loop: the sanitized name whether taken or not
node_id_NoSuffix(name, ns) == sanitize_node_id(Str(name))

\* node_id(name) of build_mermaid under the dict ns
node_id(name, ns) ==
    IF sanitize_node_id(Str(name)) \in NodeIds(ns)
    THEN FirstFree(sanitize_node_id(Str(name)), 2, NodeIds(ns))
    ELSE sanitize_node_id(Str(name))

\* nodes.get(name): "" stands for None
NodesGet(ns, name) ==
    IF name \in NodeNames(ns)
    THEN ns[CHOOSE i \in 1..Len(ns) : ns[i][1] = name][2]
    ELSE ""

\* nodes[name] = id: an existing key keeps its place, a new key is appended
NodesSet(ns, name, id) ==
    IF name \in NodeNames(ns)
    THEN [i \in 1..Len(ns) |-> IF ns[i][1] = name THEN <<name, id>> ELSE ns[i]]
    ELSE Append(ns, <<name, id>>)

\* nodes.get(name) or node_id(name)
IdFor(ns, name) ==
    IF NodesGet(ns, name) # "" THEN NodesGet(ns, name) ELSE node_id(name, ns)

\* get_val(row, idx); idx 0 stands for None, indexes are 1-based here
get_val(row, idx) ==
    IF idx = 0 THEN "" ELSE IF idx <= Len(row) THEN row[idx] ELSE ""

\* the body of the loop over data_rows: the dicts and the set after the row
BuildStep(row, cm, o, st) ==
    LET f == get_val(row, cm["from"])
        t == get_val(row, cm["to"])
        fid == IdFor(st.nodes, f)
        nodes1 == NodesSet(st.nodes, f, fid)
        tid == IdFor(nodes1, t)
        nodes2 == NodesSet(nodes1, t, tid)
        key == <<fid, tid, Strip(Str(get_val(row, cm["label"])))>>
        grp == get_val(row, cm["group"])
        dedupe == IF "mermaid_dedupe_edges" \in DOMAIN o
                  THEN o.mermaid_dedupe_edges ELSE TRUE
    IN IF Strip(Str(f)) = "" \/ Strip(Str(t)) = "" THEN st
       ELSE IF dedupe /\ key \in st.edges
       THEN [st EXCEPT !.nodes = nodes2]
       ELSE [nodes |-> nodes2,
             edges |-> st.edges \union {key},
             groups |-> IF grp # ""
                        THEN st.groups \union {<<grp, fid>>, <<grp, tid>>}
                        ELSE st.groups]

\* The order of Python's str comparison on the texts that occur.
SortedStrings ==
    <<"", "5", "_5", "_5_2", "a b", "a_b", "a_b_2", "a_b_2_2", "a_b_3",
      "a_b_4", "g", "l">>
StrRank(s) == CHOOSE i \in 1..Len(SortedStrings) : SortedStrings[i] = s

\* tuple comparison of sorted(): lexicographic over the texts
RECURSIVE TupleLessFrom(_, _, _)
TupleLessFrom(a, b, i) ==
    IF i > Len(a) THEN FALSE
    ELSE IF StrRank(a[i]) < StrRank(b[i]) THEN TRUE
    ELSE IF StrRank(a[i]) > StrRank(b[i]) THEN FALSE
    ELSE TupleLessFrom(a, b, i + 1)

RECURSIVE SortedTuples(_)
SortedTuples(S) ==
    IF S = {} THEN <<>>
    ELSE LET m == CHOOSE x \in S :
                    \A y \in S : y = x \/ TupleLessFrom(x, y, 1)
         IN <<m>> \o SortedTuples(S \ {m})

\* the display name of a node id: the first key of the dict that holds it
DispOf(ns, nid) ==
    ns[SetMin({i \in 1..Len(ns) : ns[i][2] = nid})][1]

\* the lines of one subgraph
SubgraphLines(gname, ns, gs) ==
    LET ids == SortedTuples({<<p[2]>> : p \in {q \in gs : q[1] = gname}})
    IN <<<<"subgraph", gname>>>>
       \o [i \in 1..Len(ids) |->
             <<"node", ids[i][1], Str(DispOf(ns, ids[i][1]))>>]
       \o <<<<"end">>>>

RECURSIVE Flatten(_)
Flatten(ss) == IF ss = <<>> THEN <<>> ELSE Head(ss) \o Flatten(Tail(ss))

\* the emission of build_mermaid (flowchart, direction TD, subgraph behaviour):
\* the fence, the subgraphs by name, the ungrouped nodes by display name,
\* the edges in sorted order, the fence
EmitLines(ns, es, gs) ==
    LET gnames == SortedTuples({<<p[1]>> : p \in gs})
        grouped == {p[2] : p \in gs}
        free == SortedTuples({<<Str(ns[i][1]), ns[i][2]>> :
                                i \in {j \in 1..Len(ns) :
                                         ns[j][2] \notin grouped}})
        sorted_edges == SortedTuples(es)
    IN <<<<"fence", "mermaid">>, <<"flowchart", "TD">>>>
       \o Flatten([i \in 1..Len(gnames) |->
                     SubgraphLines(gnames[i][1], ns, gs)])
       \o [i \in 1..Len(free) |-> <<"node", free[i][2], free[i][1]>>]
       \o [i \in 1..Len(sorted_edges) |->
             <<"edge", sorted_edges[i][1], sorted_edges[i][3],
               sorted_edges[i][2]>>]
       \o <<<<"fence", "">>>>

\* The flow tables: names that sanitize to the same id, and one that is the
\* suffixed id itself.
FlowNames == {"", "a b", "a_b", "a_b_2"}
FlowRows ==
    {<<f, t, lg[1], lg[2]>> :
        f \in FlowNames, t \in FlowNames,
        lg \in {<<"", "">>, <<"l", "">>, <<"", "g">>}}
HeaderNames == {"", "From", "FROM", "To", "Src"}

RECURSIVE SeqsUpTo(_, _)
SeqsUpTo(S, n) ==
    IF n = 0 THEN {<<>>}
    ELSE SeqsUpTo(S, n - 1)
         \union {Append(s, x) : s \in {q \in SeqsUpTo(S, n - 1) :
                                          Len(q) = n - 1}, x \in S}

\* --mermaid-columns as run builds it: the default, and Src,To,Label
CliColumns ==
    [from |-> "From", to |-> "To", label |-> "Label", group |-> "Group",
     note |-> "Note"]
SrcColumns ==
    [from |-> "Src", to |-> "To", label |-> "Label", group |-> "",
     note |-> ""]

FlowOpts(hd, mapping, dedupe) ==
    [mermaid_enabled |-> TRUE, mermaid_detect_mode |-> "column_headers",
     mermaid_keep_source_table |-> TRUE,
     dispatch_skip_code_and_mermaid_on_fallback |-> TRUE,
     header_detection |-> hd, merge_policy |-> "top_left_only",
     max_cells_per_table |-> max_cells_per_table,
     mermaid_columns |-> mapping, mermaid_dedupe_edges |-> dedupe]

InitFlow ==
    /\ pc = "is_flow"
    /\ \/ \E header \in SeqsUpTo(HeaderNames, MaxHeaderCells) \ {<<>>} :
          \E hd \in BOOLEAN : \E mapping \in {CliColumns, SrcColumns} :
             /\ md_rows = <<header, <<"a b", "a_b", "l">>>>
             /\ opts = FlowOpts(hd, mapping, TRUE)
       \/ \E data \in SeqsUpTo(FlowRows, MaxFlowRows) :
          \E dedupe \in BOOLEAN :
             /\ md_rows = <<<<"From", "To", "Label", "Group">>>> \o data
             /\ opts = FlowOpts(TRUE, CliColumns, dedupe)
    /\ tbl = NoTable
    /\ result = "none"
    /\ FlowIdle
    /\ AreaIdle
    /\ ScanIdle
    /\ NoteIdle
    /\ CarveIdle
    /\ UnionIdle
    /\ SheetIdle
    /\ RunIdle

\* is_flow_table(md_rows, opts): the colmap on acceptance
IsFlowTable ==
    /\ pc = "is_flow"
    /\ IF is_flow_table(md_rows, opts) = "yes"
       THEN /\ pc' = "build"
            /\ colmap' = resolve_columns_by_name(md_rows[1],
                                                 mermaid_columns(opts)).index
       ELSE /\ pc' = "no_flow"
            /\ UNCHANGED colmap
    /\ UNCHANGED <<carveVars, unionVars, sheetVars, tableVars, dispatchVars,
                   runVars, row_no, nodes, edges, groups, mermaid,
                   areaVars,
                   scanVars, noteVars>>

\* one turn of the loop over data_rows
BuildRow ==
    /\ pc = "build"
    /\ row_no < Len(md_rows) - 1
    /\ LET st == BuildStep(md_rows[row_no + 2], colmap, opts,
                           [nodes |-> nodes, edges |-> edges,
                            groups |-> groups])
       IN /\ nodes' = st.nodes
          /\ edges' = st.edges
          /\ groups' = st.groups
    /\ row_no' = row_no + 1
    /\ UNCHANGED <<pc, carveVars, unionVars, sheetVars, tableVars,
                   dispatchVars, runVars, colmap, mermaid,
                   areaVars,
                   scanVars, noteVars>>

\* the emission after the last row
BuildEmit ==
    /\ pc = "build"
    /\ row_no = Len(md_rows) - 1
    /\ mermaid' = EmitLines(nodes, edges, groups)
    /\ pc' = "emitted"
    /\ UNCHANGED <<carveVars, unionVars, sheetVars, tableVars, dispatchVars,
                   runVars, colmap, row_no, nodes, edges, groups,
                   areaVars,
                   scanVars, noteVars>>

NextFlow == IsFlowTable \/ BuildRow \/ BuildEmit
SpecFlow == InitFlow /\ [][NextFlow]_vars

----------------------------------------------------------------------------
(* get_print_areas (workbook_loader.py), one declared range at a time *)

\* Bound of the coordinates: declared ranges use rows 0..MaxCoord and
\* columns 1..MaxCoord, the sheet has up to MaxCoord rows and columns.
MaxCoord == 2

\* A declared range is the text str(r) of an entry of ws.print_area, held by
\* its parts: a cell range "A1:B2", a column range "A:B" or a text that is
\* no range; sheet tells whether the text starts with "Sheet1!".
\* stands for None among the boundaries; it is never compared as a number
None == 0 - 1
RangeTexts ==
    [kind : {"cells"}, sheet : BOOLEAN, c0 : 1..MaxCoord, r0 : 0..MaxCoord,
     c1 : 1..MaxCoord, r1 : 0..MaxCoord]
    \cup {[kind |-> k, sheet |-> FALSE, c0 |-> 1, r0 |-> 1, c1 |-> 2, r1 |-> 1] :
            k \in {"columns", "garbage"}}

\* range_str.split('!', 1)[1] when '!' is in range_str
StripSheet(r) == [r EXCEPT !.sheet = FALSE]

\* openpyxl.utils.range_boundaries: (min_col, min_row, max_col, max_row) of
\* a cell range, None for the rows of a column range, ValueError for a text
\* that is no range (a sheet name in front is no part of a range)
range_boundaries(r) ==
    IF r.sheet \/ r.kind = "garbage" THEN "ValueError"
    ELSE IF r.kind = "columns" THEN <<r.c0, None, r.c1, None>>
    ELSE <<r.c0, r.r0, r.c1, r.r1>>

\* the body of the loop over rngs without the last skip: a range that starts
\* beyond the sheet is appended with its end limited to the sheet
AreaOfRange_NoSkipBeyondSheet(r, smax) ==
    LET b == range_boundaries(StripSheet(r))
    IN IF b = "ValueError" THEN [ok |-> FALSE, why |-> "parse"]
       ELSE IF None \in {b[1], b[2], b[3], b[4]}
       THEN [ok |-> FALSE, why |-> "parse"]
       ELSE IF b[2] > b[4] \/ b[1] > b[3] THEN [ok |-> FALSE, why |-> "min > max"]
       ELSE IF b[2] < 1 \/ b[1] < 1 \/ b[4] < 1 \/ b[3] < 1
       THEN [ok |-> FALSE, why |-> "zero"]
       ELSE [ok |-> TRUE,
             area |-> <<Min2(b[2], smax[1]), Min2(b[1], smax[2]),
                        Min2(b[4], smax[1]), Min2(b[3], smax[2])>>]

\* the body of the loop over rngs: the area appended for the range, or the
\* reason it is skipped.  A comparison with None raises TypeError, which the
\* except branch of the loop turns into a skip like a ValueError.
AreaOfRange(r, smax) ==
    LET b == range_boundaries(StripSheet(r))
    IN IF b = "ValueError" THEN [ok |-> FALSE, why |-> "parse"]
       ELSE IF None \in {b[1], b[2], b[3], b[4]}
       THEN [ok |-> FALSE, why |-> "parse"]
       ELSE IF b[2] > b[4] \/ b[1] > b[3] THEN [ok |-> FALSE, why |-> "min > max"]
       ELSE IF b[2] < 1 \/ b[1] < 1 \/ b[4] < 1 \/ b[3] < 1
       THEN [ok |-> FALSE, why |-> "zero"]
       ELSE IF b[2] > smax[1] \/ b[1] > smax[2]
       THEN [ok |-> FALSE, why |-> "beyond"]
       ELSE [ok |-> TRUE,
             area |-> <<Min2(b[2], smax[1]), Min2(b[1], smax[2]),
                        Min2(b[4], smax[1]), Min2(b[3], smax[2])>>]

\* parse_dimension: the boundaries of ws.calculate_dimension(), reordered
parse_dimension(dim) ==
    LET b == range_boundaries([kind |-> "cells", sheet |-> FALSE,
                               c0 |-> dim[2], r0 |-> dim[1],
                               c1 |-> dim[4], r1 |-> dim[3]])
    IN <<b[2], b[1], b[4], b[3]>>

\* the return of get_print_areas once the loop is over
ReturnedAreas(found, smax, dim, m) ==
    IF found # <<>> THEN found
    ELSE IF m = "skip_sheet" THEN <<>>
    ELSE IF m = "entire_sheet_range" THEN <<<<1, 1, smax[1], smax[2]>>>>
    ELSE <<parse_dimension(dim)>>

\* A range that is kept, one that is no range, and one beyond every sheet.
Companions ==
    {[kind |-> "cells", sheet |-> TRUE, c0 |-> 1, r0 |-> 1, c1 |-> 1, r1 |-> 1],
     [kind |-> "garbage", sheet |-> FALSE, c0 |-> 1, r0 |-> 1, c1 |-> 2, r1 |-> 1],
     [kind |-> "cells", sheet |-> FALSE, c0 |-> 1, r0 |-> MaxCoord + 1,
      c1 |-> 1, r1 |-> MaxCoord + 1]}
DeclaredLists ==
    {<<>>} \cup {<<r>> : r \in RangeTexts}
    \cup {<<r, q>> : r \in RangeTexts, q \in Companions}
    \cup {<<q, r>> : r \in RangeTexts, q \in Companions}

\* a worksheet has at least one row and one column (max_row and max_column
\* are 1 on an empty sheet); the used range ends at max_row, max_column
InitAreas ==
    /\ pc = "ranges"
    /\ rngs \in DeclaredLists
    /\ \E n \in 1..MaxCoord : sheet_max = <<n, n>>
    /\ \E mr \in 1..sheet_max[1] : \E mc \in 1..sheet_max[2] :
          dimension = <<mr, mc, sheet_max[1], sheet_max[2]>>
    /\ mode \in {"used_range", "entire_sheet_range", "skip_sheet"}
    /\ range_no = 0
    /\ areas = <<>>
    /\ CarveIdle
    /\ UnionIdle
    /\ SheetIdle
    /\ DispatchIdle
    /\ RunIdle
    /\ FlowIdle
    /\ ScanIdle
    /\ NoteIdle

\* one turn of the loop over rngs
TakeRange ==
    /\ pc = "ranges"
    /\ range_no < Len(rngs)
    /\ LET a == AreaOfRange(rngs[range_no + 1], sheet_max)
       IN areas' = IF a.ok THEN Append(areas, a.area) ELSE areas
    /\ range_no' = range_no + 1
    /\ UNCHANGED <<pc, carveVars, unionVars, sheetVars, tableVars,
                   dispatchVars, runVars, flowVars, rngs, sheet_max,
                   dimension, mode,
                   scanVars, noteVars>>

\* the return after the loop: the declared areas, or the fallback
ReturnAreas ==
    /\ pc = "ranges"
    /\ range_no = Len(rngs)
    /\ areas' = ReturnedAreas(areas, sheet_max, dimension, mode)
    /\ pc' = "returned"
    /\ UNCHANGED <<carveVars, unionVars, sheetVars, tableVars, dispatchVars,
                   runVars, flowVars, rngs, sheet_max, dimension, mode,
                   range_no,
                   scanVars, noteVars>>

NextAreas == TakeRange \/ ReturnAreas
SpecAreas == InitAreas /\ [][NextAreas]_vars

----------------------------------------------------------------------------
(* run, for one sheet: the declared print areas are unioned and the tables *)
(* of each unioned area are detected (runner.py, "for union_area in        *)
(* unioned").  Every cell of the sheet holds a text, except one cell that  *)
(* is blank or the cells a merged range clears.                            *)

MaxScanCells == 8

ScanDims ==
    {d \in (2..MaxScanCells) \X (2..MaxScanCells) : d[1] * d[2] <= MaxScanCells}

ScanSheets(d) ==
    LET full == [rc \in (1..d[1]) \X (1..d[2]) |-> Text]
    IN {PlainSheet(full, {})}
       \cup {PlainSheet([full EXCEPT ![rc] = Blank], {}) :
                rc \in (1..d[1]) \X (1..d[2])}
       \cup {[cells |-> [rc \in (1..d[1]) \X (1..d[2]) |->
                            IF rc \in RectCells(m) /\ rc # <<m[1], m[2]>>
                            THEN Blank ELSE Text],
              merged |-> {m}, hidden_rows |-> {}, hidden_cols |-> {},
              borders |-> {}] : m \in MergeRanges(d)}

\* the print areas declared on a sheet: none, one, or two that may overlap,
\* touch or be the same
DeclaredAreas(d) ==
    LET rs == RectsIn(d[1], d[2])
    IN {<<>>} \cup {<<a>> : a \in rs} \cup {<<a, b>> : a \in rs, b \in rs}

InitScan ==
    /\ pc = "areas"
    /\ \E d \in ScanDims :
          /\ ws \in ScanSheets(d)
          /\ areas \in DeclaredAreas(d)
    /\ area = <<1, 1, 1, 1>>
    /\ hidden_policy = "ignore"
    /\ nonempty = <<>>
    /\ tables = <<>>
    /\ unioned = <<>>
    /\ union_no = 0
    /\ sheet_tables = <<>>
    /\ rngs = <<>>
    /\ sheet_max = <<1, 1>>
    /\ dimension = <<1, 1, 1, 1>>
    /\ mode = "used_range"
    /\ range_no = 0
    /\ CarveIdle
    /\ UnionIdle
    /\ DispatchIdle
    /\ RunIdle
    /\ FlowIdle
    /\ NoteIdle

\* if not areas: continue
ScanNoAreas ==
    /\ pc = "areas"
    /\ areas = <<>>
    /\ pc' = "scanned"
    /\ UNCHANGED <<carveVars, unionVars, sheetVars, tableVars, dispatchVars,
                   runVars, flowVars, areaVars, scanVars, noteVars>>

\* unioned = union_rects(areas)
ScanUnion ==
    /\ pc = "areas"
    /\ areas # <<>>
    /\ unioned' = union_rects(areas)
    /\ pc' = "detect"
    /\ UNCHANGED <<carveVars, unionVars, sheetVars, tableVars, dispatchVars,
                   runVars, flowVars, areaVars, union_no, sheet_tables,
                   noteVars>>

\* one round of "for union_area in unioned": the tables of the area
ScanDetect ==
    /\ pc = "detect"
    /\ union_no < Len(unioned)
    /\ union_no' = union_no + 1
    /\ area' = unioned[union_no + 1]
    /\ \E order \in IterOrders :
          tables' = grid_to_tables(ws, area', hidden_policy, order)
    /\ sheet_tables' = sheet_tables \o
          [i \in 1..Len(tables') |-> [union_area |-> area', tbl |-> tables'[i]]]
    /\ UNCHANGED <<pc, carveVars, unionVars, ws, hidden_policy, nonempty,
                   dispatchVars, runVars, flowVars, areaVars, unioned,
                   noteVars>>

ScanDone ==
    /\ pc = "detect"
    /\ union_no = Len(unioned)
    /\ pc' = "scanned"
    /\ UNCHANGED <<carveVars, unionVars, sheetVars, tableVars, dispatchVars,
                   runVars, flowVars, areaVars, scanVars, noteVars>>

NextScan == ScanNoAreas \/ ScanUnion \/ ScanDetect \/ ScanDone

SpecScan == InitScan /\ [][NextScan]_vars

----------------------------------------------------------------------------
(* Footnotes of hyperlinks (extract_table, run).  A footnote scope is the  *)
(* run of tables between two resets of the list footnotes: the tables of   *)
(* one sheet under footnote_scope "sheet", those of the workbook           *)
(* otherwise.  Of a table only its hyperlink cells matter, in the order    *)
(* extract_table reads them; a hyperlink has a target or a location.       *)

MaxNoteTables == 2
MaxNoteLinks == 2

Hyperlinks ==
    {[kind |-> "target", link |-> "u"], [kind |-> "target", link |-> "v"],
     [kind |-> "location", link |-> "s"]}

HyperlinkModes == {"inline", "footnote", "both"}

\* whether extract_table writes a footnote for the hyperlink: for a target
\* the footnote test is an if of its own, for a location it is the last
\* branch of the if / elif chain that starts with ("inline", "both")
GetsFootnote(hl, hmode) ==
    IF hl.kind = "target" THEN hmode \in {"footnote", "both"}
    ELSE hmode \notin {"inline", "both"} /\ hmode # "inline_plain"
         /\ hmode \in {"footnote", "both"}

\* the list note_refs of extract_table: n = footnote_index_start +
\* len(note_refs) for each hyperlink that gets a footnote
RECURSIVE NoteRefs(_, _, _, _, _)
NoteRefs(cells, i, footnote_index_start, hmode, note_refs) ==
    IF i > Len(cells) THEN note_refs
    ELSE IF GetsFootnote(cells[i], hmode)
    THEN NoteRefs(cells, i + 1, footnote_index_start, hmode,
                  Append(note_refs,
                         <<footnote_index_start + Len(note_refs), cells[i].link>>))
    ELSE NoteRefs(cells, i + 1, footnote_index_start, hmode, note_refs)

\* the cells that were given a marker, in reading order
RECURSIVE MarkedCells(_, _, _, _)
MarkedCells(cells, i, hmode, acc) ==
    IF i > Len(cells) THEN acc
    ELSE MarkedCells(cells, i + 1, hmode,
                     IF GetsFootnote(cells[i], hmode) THEN Append(acc, i) ELSE acc)

InitNotes ==
    /\ pc = "notes"
    /\ links \in UNION {[1..n -> UNION {[1..k -> Hyperlinks] : k \in 0..MaxNoteLinks}] :
                          n \in 0..MaxNoteTables}
    /\ hyperlink_mode \in HyperlinkModes
    /\ footnotes = <<>>
    /\ global_footnote_start = 1
    /\ note_marks = <<>>
    /\ table_id = 0
    /\ md_lines = <<>>
    /\ CarveIdle
    /\ UnionIdle
    /\ SheetIdle
    /\ DispatchIdle
    /\ FlowIdle
    /\ AreaIdle
    /\ ScanIdle

\* one round of "for tbl in tables": extract_table is handed
\* global_footnote_start, and its note_refs are appended to footnotes
NotesOfTable ==
    /\ pc = "notes"
    /\ table_id < Len(links)
    /\ table_id' = table_id + 1
    /\ LET cells == links[table_id + 1]
           note_refs == NoteRefs(cells, 1, global_footnote_start,
                                 hyperlink_mode, <<>>)
           marked == MarkedCells(cells, 1, hyperlink_mode, <<>>)
       IN /\ footnotes' = footnotes \o note_refs
          /\ note_marks' = note_marks \o
                [k \in 1..Len(note_refs) |->
                    <<table_id + 1, marked[k], note_refs[k][1]>>]
    /\ UNCHANGED <<pc, carveVars, unionVars, sheetVars, tableVars,
                   dispatchVars, md_lines, flowVars, areaVars, scanVars,
                   links, hyperlink_mode, global_footnote_start>>

NotesDone ==
    /\ pc = "notes"
    /\ table_id = Len(links)
    /\ pc' = "noted"
    /\ UNCHANGED <<carveVars, unionVars, sheetVars, tableVars, dispatchVars,
                   runVars, flowVars, areaVars, scanVars, noteVars>>

NextNotes == NotesOfTable \/ NotesDone

SpecNotes == InitNotes /\ [][NextNotes]_vars

----------------------------------------------------------------------------
(* C1 *)

Disjoint(rs) ==
    \A i, j \in 1..Len(rs) : i # j => RectCells(rs[i]) \cap RectCells(rs[j]) = {}
Covered(rs) == UNION {RectCells(rs[i]) : i \in 1..Len(rs)}

\* C1: the rectangles returned by carve_rectangles(G) lie inside G, are
\* pairwise disjoint and their union is exactly the set of 1-cells of G.
C1_CarveCoversExactly ==
    pc = "carved" =>
        /\ \A i \in 1..Len(out) : RectCells(out[i]) \subseteq GridCells(grid)
        /\ Disjoint(out)
        /\ Covered(out) = OneCells(grid)
        /\ (OneCells(grid) = {} => out = <<>>)

C1_Witness ==
    /\ pc = "carved"
    /\ Len(out) >= 3
    /\ Cardinality(OneCells(grid)) >= 5

----------------------------------------------------------------------------
(* C2 *)

\* Two rectangles that share no cell and do not touch, not even at a corner.
Apart(a, b) ==
    RectCells(<<a[1] - 1, a[2] - 1, a[3] + 1, a[4] + 1>>) \cap RectCells(b) = {}

SameRows(a, b) == a[1] = b[1] /\ a[3] = b[3]
NoCommonRow(a, b) == a[3] < b[1] \/ b[3] < a[1]

UnionExact ==
    /\ Disjoint(out_rects)
    /\ Covered(out_rects) = Covered(rects)
    /\ (rects = <<>> => out_rects = <<>>)

ReturnedUnchanged ==
    Len(out_rects) = 2 /\ SeqToSet(out_rects) = SeqToSet(rects)

----------------------------------------------------------------------------
(* C3 *)

MaskRows(t) == {rc[1] : rc \in t.mask}
MaskCols(t) == {rc[2] : rc \in t.mask}

\* rows of the area above and below the empty row e are filled, row e is
\* not; the sheet is plain (no merged range, no hidden row taken out)
SplitShape(e) ==
    /\ hidden_policy = "ignore"
    /\ ws.merged = {}
    /\ area[1] < e /\ e < area[3]
    /\ \A rc \in AreaCells(area) :
          cell_is_empty(WsCell(ws, rc[1], rc[2])) <=> rc[1] = e

\* C3: an empty row or column of the area is a hard boundary: no table
\* returned by grid_to_tables has a mask cell above and another below an
\* empty row, nor one left and another right of an empty column, whatever
\* the merged ranges are; a plain area whose only empty row lies between
\* filled rows (as the 5 x 2 area with row 3 empty) gives exactly two tables.
C3_EmptyRowsColsAreBoundaries ==
    pc = "tables" =>
        /\ \A i \in 1..Len(tables) :
              /\ \A e \in empty_rows(ws, area) :
                    ~(\E a, b \in MaskRows(tables[i]) :
                          a < area[1] + e /\ b > area[1] + e)
              /\ \A e \in empty_cols(ws, area) :
                    ~(\E a, b \in MaskCols(tables[i]) :
                          a < area[2] + e /\ b > area[2] + e)
        /\ \A e \in area[1]..area[3] : SplitShape(e) => Len(tables) = 2

\* An empty row that holds cells of a table (a merged range reaches into
\* it), with tables above and below it.
C3_Witness ==
    /\ pc = "tables"
    /\ \E e \in empty_rows(ws, area) :
          /\ \E i \in 1..Len(tables) : area[1] + e \in MaskRows(tables[i])
          /\ \E i \in 1..Len(tables) : \E a \in MaskRows(tables[i]) : a < area[1] + e
          /\ \E i \in 1..Len(tables) : \E b \in MaskRows(tables[i]) : b > area[1] + e

----------------------------------------------------------------------------
(* C8 *)

InRect(rc, b) == b[1] <= rc[1] /\ rc[1] <= b[3] /\ b[2] <= rc[2] /\ rc[2] <= b[4]

BoundingRect(S) ==
    <<SetMin({rc[1] : rc \in S}), SetMin({rc[2] : rc \in S}),
      SetMax({rc[1] : rc \in S}), SetMax({rc[2] : rc \in S})>>

\* C8: for every table returned by grid_to_tables the mask lies inside the
\* bbox, the bbox is the minimal bounding rectangle of the mask, and mask
\* and bbox lie inside the area that was passed in.
C8_MaskBboxArea ==
    pc = "tables" =>
        \A i \in 1..Len(tables) :
            /\ tables[i].mask # {}
            /\ \A rc \in tables[i].mask : InRect(rc, tables[i].bbox)
            /\ tables[i].bbox = BoundingRect(tables[i].mask)
            /\ tables[i].mask \subseteq AreaCells(area)
            /\ RectCells(tables[i].bbox) \subseteq AreaCells(area)

\* A table whose mask is not a rectangle, in an area that starts at B2.
C8_Witness ==
    /\ pc = "tables"
    /\ area[1] = 2 /\ area[2] = 2
    /\ \E i \in 1..Len(tables) :
          /\ Cardinality(tables[i].mask) >= 3
          /\ Cardinality(tables[i].mask) < RectArea(tables[i].bbox)

----------------------------------------------------------------------------
(* C9 *)

\* C9: grid_to_tables (and carve_rectangles inside it) is deterministic:
\* the tables returned for a sheet and an area are the same list, in the
\* same order and with the same rects, bbox and mask, under every order in
\* which the component sets are iterated.
C9_Deterministic ==
    pc = "tables" =>
        \A order \in IterOrders :
            tables = grid_to_tables(ws, area, hidden_policy, order)

\* Two tables that tie on (bbox top, bbox left), one of which is carved into
\* rectangles of which two tie on area.
C9_Witness ==
    /\ pc = "tables"
    /\ \E i, j \in 1..Len(tables) :
          i # j /\ TableKey(tables[i]) = TableKey(tables[j])
    /\ \E i \in 1..Len(tables) :
          \E j, k \in 1..Len(tables[i].rects) :
              j # k /\ RectArea(tables[i].rects[j]) = RectArea(tables[i].rects[k])

----------------------------------------------------------------------------
(* C10 *)

Intersects(m, ar) ==
    ~(m[3] < ar[1] \/ m[1] > ar[3] \/ m[4] < ar[2] \/ m[2] > ar[4])

InAreaCells(m) == RectCells(m) \cap AreaCells(area)

\* C10: the grid of build_nonempty_grid has the row and column extent of
\* the area, and for every merged range that intersects the area and has
\* its top-left cell inside it, if some cell of the range inside the area
\* is non-empty then every cell of the range inside the area is 1.
C10_MergeInfluence ==
    pc = "grid" =>
        /\ Rows(nonempty) = area[3] - area[1] + 1
        /\ \A r \in 0..Rows(nonempty) - 1 :
              DOMAIN nonempty[r] = 0..(area[4] - area[2])
        /\ \A m \in ws.merged :
              (/\ Intersects(m, area)
               /\ InArea(area, m[1], m[2])
               /\ \E rc \in InAreaCells(m) : ~cell_is_empty(WsCell(ws, rc[1], rc[2])))
              => \A rc \in InAreaCells(m) :
                    nonempty[rc[1] - area[1]][rc[2] - area[2]] = 1

\* A merged range of two rows with a value, cut by the area, one of whose
\* cells is hidden under the "exclude" policy.
C10_Witness ==
    /\ pc = "grid"
    /\ hidden_policy = "exclude"
    /\ \E m \in ws.merged :
          /\ m[3] > m[1]
          /\ InArea(area, m[1], m[2])
          /\ WsCell(ws, m[1], m[2]) = Text
          /\ Cardinality(InAreaCells(m)) >= 2
          /\ InAreaCells(m) # RectCells(m)
          /\ \E rc \in InAreaCells(m) :
                rc[1] \in ws.hidden_rows \/ rc[2] \in ws.hidden_cols

----------------------------------------------------------------------------
(* C4 *)

RowsAreTexts(rows) ==
    \A i \in 1..Len(rows) : \A j \in 1..Len(rows[i]) : IsStr(rows[i][j])

HoldsData(rows) ==
    \E i \in 1..Len(rows) : \E j \in 1..Len(rows[i]) :
        rows[i][j] # "" /\ Strip(Str(rows[i][j])) # ""

Dispatched == pc = "dispatched"

\* C4: dispatch_table_output returns one outcome of code, mermaid, text,
\* nested, table, empty for every row-set of texts: one of the first five
\* when the row-set holds data, and empty when the row-set is empty or all
\* its columns are empty.
C4_OneOutcome ==
    (Dispatched /\ RowsAreTexts(md_rows)) =>
        /\ result.ftype \in {"code", "mermaid", "text", "nested", "table", "empty"}
        /\ HoldsData(md_rows) =>
              result.ftype \in {"code", "mermaid", "text", "nested", "table"}
        /\ ~HoldsData(md_rows) => result.ftype = "empty"

\* rows were handed over, every column of them is empty, and the outcome
\* is empty
C4_Witness ==
    /\ Dispatched
    /\ md_rows # <<>>
    /\ RowsAreTexts(md_rows)
    /\ ~HoldsData(md_rows)
    /\ result.ftype = "empty"

----------------------------------------------------------------------------
(* C5 *)

CodeRule == build_code_block_from_rows(md_rows).status = "block"
DiagramRule == MermaidStep(md_rows, opts) = "mermaid"
TextRule ==
    /\ md_rows # <<>>
    /\ ~NonEmptyIdx(md_rows[1]).raised
    /\ IsSingleLineText(ws, tbl, md_rows,
                        FormatUsedCols(ws, tbl, build_merged_lookup(ws, area), opts),
                        build_merged_lookup(ws, area), opts)
NestedRule == NestedScan(md_rows, 1) = "nested"

\* C5: the checks are applied in the order code, diagram, text, nested,
\* table and the first that matches decides: rows that satisfy the code
\* rule are code whatever else they satisfy, and the one-column table of
\* "public class Foo {", "  int x;", "}" is code.
C5_FirstMatchWins ==
    Dispatched =>
        /\ CodeRule => result.ftype = "code"
        /\ ws.cells = FooExample => result.ftype = "code"
        /\ (RowsAreTexts(md_rows) /\ HoldsData(md_rows) /\ ~CodeRule) =>
              /\ DiagramRule => result.ftype = "mermaid"
              /\ (~DiagramRule /\ TextRule) => result.ftype = "text"
              /\ (~DiagramRule /\ ~TextRule /\ NestedRule) => result.ftype = "nested"
              /\ (~DiagramRule /\ ~TextRule /\ ~NestedRule) => result.ftype = "table"

\* the borderless Foo table: it satisfies the text rule and the nested rule
\* as well, and is code
C5_Witness ==
    /\ Dispatched
    /\ ws.cells = FooExample
    /\ ws.borders = {}
    /\ CodeRule
    /\ TextRule
    /\ NestedRule
    /\ result.ftype = "code"

----------------------------------------------------------------------------
(* C6 *)

----------------------------------------------------------------------------
(* C7 *)

CellsIn(rows) == IF rows = <<>> THEN 0 ELSE Len(rows) * Len(rows[1])

Running == pc \in {"run", "done", "crashed"}

\* C7: a table whose extraction was cut short at max_cells_per_table is
\* formatted with the rows completed so far, and run goes on with the
\* tables after it.
C7_TruncatedIsFormatted ==
    Running =>
        \A i \in 1..table_id :
            Extracted(i).truncated =>
                /\ pc # "crashed"
                /\ \E k \in 1..Len(md_lines) : md_lines[k].table = i

\* C7, the count: the rows that extract_table returns never hold more than
\* max_cells_per_table cells.
C7_RowsWithinLimit ==
    Running =>
        \A i \in 1..Len(tables) :
            CellsIn(Extracted(i).md_rows) <= opts.max_cells_per_table

\* the extraction of a table was cut short, run stopped there, and a table
\* after it was never taken up
C7_Witness ==
    /\ pc = "crashed"
    /\ Extracted(table_id).truncated
    /\ Extracted(table_id).md_rows # <<>>
    /\ table_id < Len(tables)

----------------------------------------------------------------------------
(* C11 *)

HiddenCell(rc) == rc[1] \in ws.hidden_rows \/ rc[2] \in ws.hidden_cols

InMergeBlock(rc) == \E m \in ws.merged : rc \in RectCells(m)

GridAt(rc) == nonempty[rc[1] - area[1]][rc[2] - area[2]]

\* C11: with hidden_policy = "exclude" every cell of the area in a hidden
\* row or column is 0 in the grid of build_nonempty_grid, whatever it
\* holds and whether or not it lies in a merged range.
C11_HiddenCellsAreZero ==
    (pc = "grid" /\ hidden_policy = "exclude") =>
        \A rc \in AreaCells(area) : HiddenCell(rc) => GridAt(rc) = 0

\* C11, outside merged ranges: a hidden cell of the area that lies in no
\* merged range is 0 in the grid, whatever it holds.
C11_HiddenUnmergedAreZero ==
    (pc = "grid" /\ hidden_policy = "exclude") =>
        \A rc \in AreaCells(area) :
            (HiddenCell(rc) /\ ~InMergeBlock(rc)) => GridAt(rc) = 0

\* a hidden cell of a merged range whose top-left cell holds a text is 1 in
\* the grid
C11_Witness ==
    /\ pc = "grid"
    /\ hidden_policy = "exclude"
    /\ \E rc \in AreaCells(area) :
          /\ HiddenCell(rc)
          /\ InMergeBlock(rc)
          /\ GridAt(rc) = 1

----------------------------------------------------------------------------
(* C12 *)

\* the merged ranges of the sheet whose top-left cell lies in the area and
\* holds a value
ValuedBlocks ==
    {m \in ws.merged :
        InArea(area, m[1], m[2]) /\ ~cell_is_empty(WsCell(ws, m[1], m[2]))}

InOneTable(cells) ==
    \E i \in 1..Len(tables) : cells \subseteq tables[i].mask

\* C12: for every merged range whose top-left cell lies in the area and
\* holds a value, all cells of the range inside the area are in the mask
\* of one and the same table of grid_to_tables.
C12_MergesDoNotSplit ==
    pc = "tables" => \A m \in ValuedBlocks : InOneTable(InAreaCells(m))

\* C12, rows and columns with data: such a range is kept in one table when
\* none of the rows and columns it spans inside the area is an empty row
\* or an empty column.
C12_KeptWhereRowsColsHoldData ==
    pc = "tables" =>
        \A m \in ValuedBlocks :
            (/\ \A rc \in InAreaCells(m) : rc[1] - area[1] \notin empty_rows(ws, area)
             /\ \A rc \in InAreaCells(m) : rc[2] - area[2] \notin empty_cols(ws, area))
            => InOneTable(InAreaCells(m))

\* a merged range with a value, nothing hidden, and two of its cells in
\* different tables
C12_Witness ==
    /\ pc = "tables"
    /\ hidden_policy = "ignore"
    /\ \E m \in ValuedBlocks :
          \E a, b \in InAreaCells(m) :
              \E i, j \in 1..Len(tables) :
                  i # j /\ a \in tables[i].mask /\ b \in tables[j].mask

----------------------------------------------------------------------------
(* C13 *)

PlainArea == hidden_policy = "ignore" /\ ws.merged = {}

FilledCells ==
    {rc \in AreaCells(area) : ~cell_is_empty(WsCell(ws, rc[1], rc[2]))}

AreaRects ==
    {r \in (area[1]..area[3]) \X (area[2]..area[4])
           \X (area[1]..area[3]) \X (area[2]..area[4]) :
        r[1] <= r[3] /\ r[2] <= r[4]}

\* block b starts in the row after block a ends, and in the column right
\* after a's last or ends in the column before a's first: they share no
\* row and no column and touch at one corner
CornerBlocks(a, b) ==
    /\ a[3] + 1 = b[1]
    /\ (a[4] + 1 = b[2] \/ b[4] + 1 = a[2])
    /\ FilledCells = RectCells(a) \cup RectCells(b)

\* the cells reached from the cells of from by steps to the cell above,
\* below, left or right inside S
RECURSIVE Reach4(_, _)
Reach4(from, S) ==
    LET more == {rc \in S \ from :
                    \E x \in from : Abs(rc[1] - x[1]) + Abs(rc[2] - x[2]) = 1}
    IN IF more = {} THEN from ELSE Reach4(from \cup more, S)

EdgeConnected(S) ==
    S # {} /\ Reach4({CHOOSE x \in S : TRUE}, S) = S

\* C13: two rectangular blocks of a plain area that touch only at a corner
\* are returned as two tables, one per block, while a region whose cells
\* hang together by their edges (an L, a staircase) is one table.
C13_CornerBlocksStayApart ==
    (pc = "tables" /\ PlainArea) =>
        /\ \A a, b \in AreaRects :
              CornerBlocks(a, b) =>
                  /\ Len(tables) = 2
                  /\ {tables[i].mask : i \in 1..Len(tables)}
                        = {RectCells(a), RectCells(b)}
        /\ EdgeConnected(FilledCells) =>
              Len(tables) = 1 /\ tables[1].mask = FilledCells

\* C13, regions joined by edges: a region of a plain area whose cells hang
\* together by their edges is returned as one table.
C13_EdgeConnectedIsOneTable ==
    (pc = "tables" /\ PlainArea /\ EdgeConnected(FilledCells)) =>
        Len(tables) = 1 /\ tables[1].mask = FilledCells

\* the two 2 x 2 blocks of the 4 x 4 area, returned as one table of 8 cells
C13_Witness ==
    /\ pc = "tables"
    /\ ws = grid_two_separate
    /\ CornerBlocks(<<1, 1, 2, 2>>, <<3, 3, 4, 4>>)
    /\ Len(tables) = 1
    /\ Cardinality(tables[1].mask) = 8

----------------------------------------------------------------------------
(* C14 *)

\* the data rows taken up so far whose from and to cells are both non-empty
TakenRows ==
    {i \in 2..(row_no + 1) :
        /\ Strip(Str(get_val(md_rows[i], colmap["from"]))) # ""
        /\ Strip(Str(get_val(md_rows[i], colmap["to"]))) # ""}
\* the from and to values of those rows
TakenValues ==
    {get_val(md_rows[i], colmap["from"]) : i \in TakenRows}
    \union {get_val(md_rows[i], colmap["to"]) : i \in TakenRows}

OneNodePerValue ==
    /\ NodeNames(nodes) = TakenValues
    /\ Len(nodes) = Cardinality(TakenValues)
IdsInjective ==
    \A i, j \in 1..Len(nodes) : i # j => nodes[i][2] # nodes[j][2]
IdsKept ==
    \A i \in 1..Len(nodes) :
        /\ i <= Len(nodes')
        /\ nodes'[i] = nodes[i]

\* C14: after any sequence of data rows build_mermaid holds exactly one node
\* per distinct from/to value of the rows whose from and to cells are both
\* non-empty, no two values share a node id, and a value keeps the id it
\* was first given.
C14_OneNodePerValue ==
    /\ [](pc \in {"build", "emitted"} => OneNodePerValue /\ IdsInjective)
    /\ [][IdsKept]_vars

\* all rows are taken, three values sanitize to ids that collide, and the
\* value "a_b" was pushed past the id "a_b_2" a value already held
C14_Witness ==
    /\ pc = "emitted"
    /\ row_no = 2
    /\ NodesGet(nodes, "a_b_2") = "a_b_2"
    /\ NodesGet(nodes, "a b") = "a_b"
    /\ NodesGet(nodes, "a_b") = "a_b_3"

----------------------------------------------------------------------------
(* C15 *)

\* the edge lines of the emitted block
EdgeLines == {i \in 1..Len(mermaid) : mermaid[i][1] = "edge"}
\* the (from, to, label) triples of the rows with non-empty from and to cells
TakenTriples ==
    {<<get_val(md_rows[i], colmap["from"]), get_val(md_rows[i], colmap["to"]),
       Strip(Str(get_val(md_rows[i], colmap["label"])))>> : i \in TakenRows}

\* C15 as stated: build_mermaid emits one edge per data row with non-empty
\* from and to cells when mermaid_dedupe_edges is cleared (k identical rows
\* yield k edges), and one edge per distinct (from, to, label) triple when it
\* is set.
C15_OneEdgePerRowUnlessDeduped ==
    pc = "emitted" =>
        Cardinality(EdgeLines) = IF opts.mermaid_dedupe_edges
                                 THEN Cardinality(TakenTriples)
                                 ELSE Cardinality(TakenRows)

\* C15, what the code does: whether the flag is set or cleared, one edge is
\* emitted per distinct (from, to, label) triple of the rows with non-empty
\* from and to cells.
C15_OneEdgePerTriple ==
    pc = "emitted" => Cardinality(EdgeLines) = Cardinality(TakenTriples)

\* the flag is cleared, two identical rows were taken, one edge was emitted
C15_Witness ==
    /\ pc = "emitted"
    /\ ~opts.mermaid_dedupe_edges
    /\ Len(md_rows) = 3
    /\ md_rows[2] = md_rows[3]
    /\ TakenRows = {2, 3}
    /\ Cardinality(EdgeLines) = 1

----------------------------------------------------------------------------
(* C16 *)

\* the non-empty header cells whose normalized name is the normalized name
\* the mapping gives the role
MatchesOf(role) ==
    {i \in 1..Len(md_rows[1]) :
        /\ md_rows[1][i] # ""
        /\ opts.mermaid_columns[role] # ""
        /\ normalize_header_name(md_rows[1][i])
             = normalize_header_name(opts.mermaid_columns[role])}
Accepted == pc \in {"build", "emitted"}
Decided == pc # "is_flow"
LeftmostUsed ==
    \A role \in {"from", "to"} :
        /\ colmap[role] \in MatchesOf(role)
        /\ \A i \in MatchesOf(role) : colmap[role] <= i

\* C16 as stated: in column_headers mode is_flow_table accepts a table
\* exactly when non-empty cells of its first row resolve the from role and
\* the to role through the configured mapping, and the leftmost matching
\* column is used for each role.
C16_AcceptedIffResolved ==
    Decided =>
        /\ Accepted <=> (MatchesOf("from") # {} /\ MatchesOf("to") # {})
        /\ Accepted => LeftmostUsed

\* C16 as amended: in column_headers mode is_flow_table accepts a table
\* exactly when header detection is on and non-empty cells of its first row
\* resolve the from role and the to role through the configured mapping; the
\* leftmost matching column is used for each role.
C16_AcceptedIffResolvedUnderHeaderDetection ==
    Decided =>
        /\ Accepted <=> /\ opts.header_detection
                        /\ MatchesOf("from") # {}
                        /\ MatchesOf("to") # {}
        /\ Accepted => LeftmostUsed

\* a header with two cells that match the from role was accepted
C16_Witness ==
    /\ Accepted
    /\ Cardinality(MatchesOf("from")) = 2
    /\ colmap["from"] = 1
    /\ colmap["to"] = 3

----------------------------------------------------------------------------
(* C17 *)

\* the table got past the code, diagram and text checks
ReachesNested ==
    /\ Dispatched
    /\ RowsAreTexts(md_rows)
    /\ HoldsData(md_rows)
    /\ ~CodeRule
    /\ ~DiagramRule
    /\ ~TextRule

\* the columns (1-based) of the non-empty cells of a row
Filled(row) == {j \in 1..Len(row) : row[j] # "" /\ Strip(row[j]) # ""}
\* blank, or one contiguous run of non-empty cells
OneRun(row) ==
    Filled(row) = {} \/ Filled(row) = SetMin(Filled(row))..SetMax(Filled(row))
\* blank, a single cell, or a run of several cells that starts past the
\* first column
OneRunPastFirst(row) ==
    \/ Cardinality(Filled(row)) <= 1
    \/ OneRun(row) /\ SetMin(Filled(row)) > 1

RECURSIVE Blanks(_)
Blanks(n) == IF n = 0 THEN "" ELSE " " \o Blanks(n - 1)
\* 2*k spaces and the value at column k (k counted from 0)
Outline(row) ==
    IF Filled(row) = {} THEN ""
    ELSE Blanks(2 * (SetMin(Filled(row)) - 1)) \o row[SetMin(Filled(row))]
RenderedAsOutline ==
    /\ Len(result.output) = Len(md_rows)
    /\ \A i \in 1..Len(md_rows) : result.output[i] = Outline(md_rows[i])

\* C17 as stated: a table that reaches the nested check is nested exactly
\* when every row is blank or has its non-empty cells in one contiguous run
\* starting at some column k >= 0, for runs of one and of several cells;
\* each row is then rendered as 2*k spaces and the value at column k;
\* otherwise the table is classified table.
C17_NestedIffEveryRowIsOneRun ==
    ReachesNested =>
        /\ result.ftype = "nested"
              <=> \A i \in 1..Len(md_rows) : OneRun(md_rows[i])
        /\ result.ftype = "nested" => RenderedAsOutline
        /\ result.ftype # "nested" => result.ftype = "table"

\* C17, what the code does: the table is nested exactly when every row is
\* blank, holds a single cell, or holds a run of several cells that starts
\* past the first column; the rendering is as stated.
C17_NestedIffRunsStartPastFirst ==
    ReachesNested =>
        /\ result.ftype = "nested"
              <=> \A i \in 1..Len(md_rows) : OneRunPastFirst(md_rows[i])
        /\ result.ftype = "nested" => RenderedAsOutline
        /\ result.ftype # "nested" => result.ftype = "table"

\* a row of two adjacent cells that starts in the first column reached the
\* nested check and came out as a table
C17_Witness ==
    /\ ReachesNested
    /\ Len(md_rows) = 1
    /\ Filled(md_rows[1]) = {1, 2}
    /\ result.ftype = "table"

\* a run of two cells past the first column came out as a nested outline
C17_NestedWitness ==
    /\ ReachesNested
    /\ \E i \in 1..Len(md_rows) : Filled(md_rows[i]) = {2, 3}
    /\ result.ftype = "nested"

----------------------------------------------------------------------------
(* C18 *)

\* the rows are the ones extract_table returns for the table, as in run
RowsExtracted ==
    md_rows = extract_table(ws, tbl, opts, build_merged_lookup(ws, area),
                            area).md_rows
\* the table got past the code and diagram checks
ReachesText ==
    /\ Dispatched
    /\ RowsExtracted
    /\ HoldsData(md_rows)
    /\ ~CodeRule
    /\ ~DiagramRule

ShownAt(R, C) ==
    IF <<R, C>> \in tbl.mask
    THEN Strip(CellText(ws, build_merged_lookup(ws, area), opts, R, C))
    ELSE ""
TableRows == tbl.bbox[1]..tbl.bbox[3]
TableCols == tbl.bbox[2]..tbl.bbox[4]
\* the sheet row of the first row of md_rows: the first row of the table
\* that shows a value
FirstRowOnSheet ==
    SetMin({R \in TableRows : \E C \in TableCols : ShownAt(R, C) # ""})
\* the columns of that row that show a value
ValueCols == {C \in TableCols : ShownAt(FirstRowOnSheet, C) # ""}
TheValueCol == SetMin(ValueCols)
\* the table's cells of that row
FirstRowCells == {C \in TableCols : <<FirstRowOnSheet, C>> \in tbl.mask}

SingleBorderlessValue ==
    /\ Cardinality(ValueCols) = 1
    /\ ~has_border(ws, FirstRowOnSheet, TheValueCol)
    /\ \A C \in FirstRowCells \ {TheValueCol} :
          ~has_border(ws, FirstRowOnSheet, C)

\* C18 as stated: a table that reaches the text check is text, with the
\* value of the cell as payload, exactly when its first row has exactly one
\* non-empty cell, the sheet cell under that value has fewer than 2 border
\* sides set, and every other cell of the first row is empty and
\* borderless.
C18_TextIffSingleBorderlessValue ==
    ReachesText =>
        /\ result.ftype = "text" <=> SingleBorderlessValue
        /\ result.ftype = "text"
              => result.output
                   = md_escape(CellText(ws, build_merged_lookup(ws, area), opts,
                                        FirstRowOnSheet, TheValueCol))

\* every column of the table shows a value in some row, and the top row of
\* the table shows one
TopRowShown ==
    /\ FirstRowOnSheet = tbl.bbox[1]
    /\ \A C \in FirstRowCells : \E R \in TableRows : ShownAt(R, C) # ""

\* C18, what the code does: the statement holds for the tables whose top
\* row shows a value and whose first-row cells all lie in columns that
\* show a value; a first row with two or more values is never text.
C18_TextIffSingleBorderlessValueInTopRow ==
    ReachesText =>
        /\ TopRowShown => (result.ftype = "text" <=> SingleBorderlessValue)
        /\ Cardinality(ValueCols) >= 2 => result.ftype # "text"
        /\ result.ftype = "text"
              => result.output
                   = md_escape(CellText(ws, build_merged_lookup(ws, area), opts,
                                        FirstRowOnSheet, TheValueCol))

\* the value sits under a filled row, its cell has two border sides set, and
\* the table is text
C18_Witness ==
    /\ ReachesText
    /\ FirstRowOnSheet > tbl.bbox[1]
    /\ Cardinality(ValueCols) = 1
    /\ has_border(ws, FirstRowOnSheet, TheValueCol)
    /\ result.ftype = "text"

----------------------------------------------------------------------------
(* C19 *)

\* b starts in the column right after a ends
RightAfter(a, b) == b[2] = a[4] + 1
\* a and b have a column in common
ShareColumn(a, b) == a[2] <= b[4] /\ b[2] <= a[4]
Hull(a, b) ==
    <<Min2(a[1], b[1]), Min2(a[2], b[2]), Max2(a[3], b[3]), Max2(a[4], b[4])>>
TwoOnSameRows ==
    pc = "unioned" /\ Len(rects) = 2 /\ SameRows(rects[1], rects[2])

\* C19 as stated: two rectangles on the same rows come out of union_rects as
\* one rectangle when their column intervals overlap and also when they
\* touch, the second starting in the column right after the first ends.
C19_TouchingIntervalsMerge ==
    (/\ TwoOnSameRows
     /\ \/ ShareColumn(rects[1], rects[2])
        \/ RightAfter(rects[1], rects[2])
        \/ RightAfter(rects[2], rects[1]))
    => out_rects = <<Hull(rects[1], rects[2])>>

\* C19, what the code does: two rectangles on the same rows come out as one
\* rectangle when their column intervals have a column in common, and as
\* the two rectangles themselves when they only touch.
C19_OverlappingIntervalsMerge ==
    TwoOnSameRows =>
        /\ ShareColumn(rects[1], rects[2])
              => out_rects = <<Hull(rects[1], rects[2])>>
        /\ (RightAfter(rects[1], rects[2]) \/ RightAfter(rects[2], rects[1]))
              => ReturnedUnchanged

\* two rectangles on rows 1..2 that touch came out as two rectangles
C19_Witness ==
    /\ TwoOnSameRows
    /\ rects[1][1] = 1 /\ rects[1][3] = 2
    /\ RightAfter(rects[1], rects[2])
    /\ Len(out_rects) = 2
    /\ out_rects = rects

----------------------------------------------------------------------------
(* C20 *)

\* a declared range that is a cell range, has min <= max, starts at row and
\* column 1 or later and starts inside the sheet
GoodRange(r) ==
    /\ r.kind = "cells"
    /\ 1 <= r.r0 /\ r.r0 <= r.r1
    /\ 1 <= r.c0 /\ r.c0 <= r.c1
    /\ r.r0 <= sheet_max[1]
    /\ r.c0 <= sheet_max[2]
\* the range with its end limited to the sheet
Limited(r) ==
    <<r.r0, r.c0, Min2(r.r1, sheet_max[1]), Min2(r.c1, sheet_max[2])>>
\* the good ranges among the first n declared ones, in their order
RECURSIVE KeptOf(_)
KeptOf(n) ==
    IF n = 0 THEN <<>>
    ELSE IF GoodRange(rngs[n]) THEN Append(KeptOf(n - 1), Limited(rngs[n]))
    ELSE KeptOf(n - 1)
WellFormedArea(a) == 1 <= a[1] /\ a[1] <= a[3] /\ 1 <= a[2] /\ a[2] <= a[4]

\* C20: get_print_areas skips a declared range that cannot be parsed, has
\* min > max or starts beyond the sheet, and returns every other declared
\* range (its end limited to the sheet) in the declared order; every area
\* it holds or returns, declared or fallback, has 1 <= min_row <= max_row
\* and 1 <= min_col <= max_col.
C20_BadRangesSkipped ==
    /\ pc \in {"ranges", "returned"} =>
          \A i \in 1..Len(areas) : WellFormedArea(areas[i])
    /\ pc = "ranges" => areas = KeptOf(range_no)
    /\ (pc = "returned" /\ KeptOf(Len(rngs)) # <<>>)
          => areas = KeptOf(Len(rngs))
    /\ (pc = "returned" /\ KeptOf(Len(rngs)) = <<>> /\ mode # "skip_sheet")
          => Len(areas) = 1

\* a range that starts below the last row of the sheet was declared in
\* front of a good one, and the good one alone was returned
C20_Witness ==
    /\ pc = "returned"
    /\ Len(rngs) = 2
    /\ rngs[1].kind = "cells"
    /\ rngs[1].r0 <= rngs[1].r1
    /\ rngs[1].c0 <= rngs[1].c1
    /\ rngs[1].r0 > sheet_max[1]
    /\ GoodRange(rngs[2])
    /\ areas = <<Limited(rngs[2])>>

----------------------------------------------------------------------------
(* C21 *)

\* Every axis-aligned rectangle of gr whose cells are all 1.
AllOnesRects(gr) ==
    {r \in (0..Rows(gr) - 1) \X (0..Cols(gr) - 1)
           \X (0..Rows(gr) - 1) \X (0..Cols(gr) - 1) :
        /\ r[1] <= r[3] /\ r[2] <= r[4]
        /\ \A rc \in RectCells(r) : gr[rc[1]][rc[2]] = 1}

MaxOnesArea(gr) == SetMax({RectArea(r) : r \in AllOnesRects(gr)})

\* The first rectangle of largest area in the enumeration order.
FirstLargest(cands) ==
    LET big == SetMax({RectArea(cands[i]) : i \in 1..Len(cands)})
    IN cands[SetMin({i \in 1..Len(cands) : RectArea(cands[i]) = big})]

\* The rectangle an iteration of the loop has just appended.
Recorded == out'[Len(out')]

IterationTaken == pc = "carve" /\ pc' = "carve" /\ Len(out') = Len(out) + 1

\* C21: at every iteration of carve_rectangles the enumeration holds only
\* all-ones rectangles of the current grid and one of them has the largest
\* area any all-ones rectangle of that grid has; the rectangle recorded and
\* zeroed has that largest area and is the first such candidate in
\* enumeration order.
C21_RecordsFirstLargestRectangle ==
    [][IterationTaken =>
        LET cands == enumerate_histogram_rectangles(g)
        IN /\ SeqToSet(cands) \subseteq AllOnesRects(g)
           /\ \E i \in 1..Len(cands) : RectArea(cands[i]) = MaxOnesArea(g)
           /\ RectArea(Recorded) = MaxOnesArea(g)
           /\ Recorded = FirstLargest(cands)
           /\ g' = ZeroRect(g, Recorded)]_vars

\* A first iteration has run on a grid that holds a second all-ones rectangle
\* as large as the one recorded, listed later in the enumeration.
C21_Witness ==
    /\ pc = "carve"
    /\ Len(out) = 1
    /\ g = ZeroRect(grid, out[1])
    /\ LET cands == enumerate_histogram_rectangles(grid)
       IN \E i, j \in 1..Len(cands) :
            /\ i < j
            /\ cands[i] = out[1]
            /\ cands[j] # out[1]
            /\ RectArea(cands[j]) = RectArea(out[1])
            /\ RectArea(out[1]) = MaxOnesArea(grid)

----------------------------------------------------------------------------
(* C22 *)

OnesLeft == Cardinality(OneCells(g))

\* C22: carve_rectangles terminates on every finite grid: while the working
\* grid holds a 1 the candidate list is not empty, each iteration lowers the
\* number of 1-cells, the loop has run at most as often as the input has
\* 1-cells, and the function returns with no 1-cell left.
C22_CarveTerminates ==
    /\ [](pc = "carve" /\ OnesLeft > 0 =>
            enumerate_histogram_rectangles(g) # <<>>)
    /\ [][IterationTaken => Cardinality(OneCells(g')) < OnesLeft]_vars
    /\ [](Len(out) <= Cardinality(OneCells(grid)))
    /\ [](pc = "carved" => OnesLeft = 0)
    /\ <>(pc = "carved")

\* The function has returned after as many iterations as the input has
\* 1-cells, three or more.
C22_Witness ==
    /\ pc = "carved"
    /\ Len(out) >= 3
    /\ Len(out) = Cardinality(OneCells(grid))
    /\ OnesLeft = 0

----------------------------------------------------------------------------
(* C23 *)

\* local (0-based) indices of the cells of the area
LocalCells == (0..(area[3] - area[1])) \X (0..(area[4] - area[2]))

\* the cells for which the search of grid_to_tables asks is_connected: both
\* hold 1 in the grid
GridOnes ==
    LET gr == build_nonempty_grid(ws, area, hidden_policy)
    IN {rc \in LocalCells : gr[rc[1]][rc[2]] = 1}

Diagonal(a, b) == Abs(a[1] - b[1]) = 1 /\ Abs(a[2] - b[2]) = 1

\* a horizontal step between columns ca and cb, a vertical step between rows
\* ra and rb
HStepOpen(ec, ca, cb) == ca \notin ec /\ cb \notin ec
VStepOpen(er, ra, rb) == ra \notin er /\ rb \notin er

\* (r1,c1) -> (r1,c2) -> (r2,c2) and (r1,c1) -> (r2,c1) -> (r2,c2)
HThenVOpen(er, ec, a, b) == HStepOpen(ec, a[2], b[2]) /\ VStepOpen(er, a[1], b[1])
VThenHOpen(er, ec, a, b) == VStepOpen(er, a[1], b[1]) /\ HStepOpen(ec, a[2], b[2])

Connected(a, b) ==
    is_connected(empty_rows(ws, area), empty_cols(ws, area),
                 a[1], a[2], b[1], b[2])
PathOpen(a, b) ==
    \/ HThenVOpen(empty_rows(ws, area), empty_cols(ws, area), a, b)
    \/ VThenHOpen(empty_rows(ws, area), empty_cols(ws, area), a, b)

\* C23: for diagonally adjacent grid cells is_connected holds exactly when
\* the horizontal-then-vertical or the vertical-then-horizontal path is
\* unblocked, a horizontal step being blocked by an empty column at either
\* end and a vertical step by an empty row at either end.  Stated for the
\* pairs of 1-cells the search asks about.
C23_DiagonalIffAPathUnblocked ==
    \A a, b \in GridOnes :
        Diagonal(a, b) => (Connected(a, b) = PathOpen(a, b))

\* C23, what is_connected tests: an unblocked path is enough, and a diagonal
\* step is refused when the row or the column of the first cell is empty or
\* when both the row and the column of the second cell are; the row of the
\* second cell alone, or its column alone, being empty does not block it.
C23_DiagonalTestsFirstCellOnly ==
    LET er == empty_rows(ws, area)
        ec == empty_cols(ws, area)
    IN \A a, b \in LocalCells :
        Diagonal(a, b) =>
            /\ PathOpen(a, b) => Connected(a, b)
            /\ Connected(a, b) <=>
                  /\ a[1] \notin er
                  /\ a[2] \notin ec
                  /\ (b[1] \notin er \/ b[2] \notin ec)

\* The search has joined two diagonal 1-cells although both paths between
\* them are blocked: the second cell continues a merged range into a row
\* that is otherwise empty.
C23_Witness ==
    /\ pc = "tables"
    /\ \E a, b \in GridOnes :
          /\ Diagonal(a, b)
          /\ Connected(a, b)
          /\ ~PathOpen(a, b)
          /\ ~Connected(b, a)
          /\ \E i \in 1..Len(tables) :
                {<<area[1] + a[1], area[2] + a[2]>>,
                 <<area[1] + b[1], area[2] + b[2]>>} \subseteq tables[i].mask

----------------------------------------------------------------------------
(* C24 *)

CodeRaised == build_code_block_from_rows(md_rows).status = "raised"

SkipOnFallback == opts.dispatch_skip_code_and_mermaid_on_fallback

\* what the call gives when classification goes on at the text check:
\* text, nested, empty, table, or the exception that leaves the call there
FromTextCheck ==
    LET fmt == format_table_as_text_or_nested(ws, tbl, md_rows, opts,
                                              build_merged_lookup(ws, area))
    IN IF fmt = "table" /\ make_markdown_table(md_rows) = "raised"
       THEN "raised" ELSE fmt

\* C24: when code detection raises, the table is not classified code; with
\* dispatch_skip_code_and_mermaid_on_fallback true diagram detection is not
\* attempted (the table is never a diagram and no diagram failure is seen)
\* and the outcome is what the text check and the checks after it give;
\* with the flag false diagram detection runs first: a table it accepts is
\* a diagram, and otherwise the text check follows.
C24_CodeFailureSkipsDiagramByFlag ==
    (Dispatched /\ CodeRaised) =>
        /\ result.ftype # "code"
        /\ result.code_failed
        /\ SkipOnFallback =>
              /\ result.ftype # "mermaid"
              /\ ~result.mermaid_failed
              /\ result.ftype = FromTextCheck
        /\ ~SkipOnFallback =>
              /\ DiagramRule <=> result.ftype = "mermaid"
              /\ result.mermaid_failed <=> MermaidStep(md_rows, opts) = "raised"
              /\ ~DiagramRule => result.ftype = FromTextCheck

\* Code detection raised on a table that diagram detection accepts, the flag
\* is true and the table is not a diagram.
C24_Witness ==
    /\ Dispatched
    /\ CodeRaised
    /\ SkipOnFallback
    /\ DiagramRule
    /\ result.code_failed
    /\ result.ftype # "mermaid"

\* The same with the flag false: the table is a diagram.
C24_FlagFalseWitness ==
    /\ Dispatched
    /\ CodeRaised
    /\ ~SkipOnFallback
    /\ result.code_failed
    /\ result.ftype = "mermaid"

----------------------------------------------------------------------------
(* C25 *)

\* the stripped text of the first non-empty cell of row i, "" for a blank row
RowText(i) ==
    LET full == {j \in 1..Len(md_rows[i]) :
                    md_rows[i][j] # "" /\ Strip(md_rows[i][j]) # ""}
    IN IF full = {} THEN "" ELSE Strip(md_rows[i][SetMin(full)])

QualifyingRows == {i \in 1..Len(md_rows) : is_source_code(RowText(i))}

\* C25: build_code_block_from_rows returns a code block exactly when the
\* first non-empty cell of at least one row satisfies is_source_code; the
\* block holds, in row order, one line for every row from the first such
\* row to the last row (the stripped first non-empty cell, or an empty line
\* for a blank row) and no line for a row before it.  Rows of texts.
C25_CodeBlockFromFirstQualifyingRow ==
    (Dispatched /\ RowsAreTexts(md_rows)) =>
        /\ QualifyingRows # {} <=> build_code_block_from_rows(md_rows).status = "block"
        /\ QualifyingRows # {} <=> result.ftype = "code"
        /\ QualifyingRows # {} =>
              LET first == SetMin(QualifyingRows)
              IN result.output =
                    [k \in 1..(Len(md_rows) - first + 1) |-> RowText(first + k - 1)]

\* A block that leaves out the row before the first code line and holds an
\* empty line for a blank row after it.
C25_Witness ==
    /\ Dispatched
    /\ RowsAreTexts(md_rows)
    /\ result.ftype = "code"
    /\ SetMin(QualifyingRows) >= 2
    /\ RowText(1) # ""
    /\ Len(result.output) = Len(md_rows) - 1
    /\ \E k \in 1..Len(result.output) : result.output[k] = ""

----------------------------------------------------------------------------
(* C26 *)

\* the merge blocks whose top-left cell lies outside the area
OutsideBlocks == {m \in ws.merged : ~InArea(area, m[1], m[2])}

\* the sheet without merge block m
WithoutBlock(m) == [ws EXCEPT !.merged = @ \ {m}]

\* the first pass leaves a hidden cell at 0 under the "exclude" policy
HiddenExcluded(rc) ==
    /\ hidden_policy = "exclude"
    /\ (rc[1] \in ws.hidden_rows \/ rc[2] \in ws.hidden_cols)

\* C26: a merge block whose top-left cell lies outside the area has no
\* effect on the area: the grid of build_nonempty_grid is the grid of the
\* sheet without the block (each overlapped cell that is not excluded as
\* hidden is 1 iff the cell itself is non-empty), and build_merged_lookup
\* holds no key of the block; every key of the lookup lies inside the area
\* and maps to a top-left cell inside the area.
C26_OutsideBlocksHaveNoEffect ==
    LET lookup == build_merged_lookup(ws, area)
    IN /\ \A m \in OutsideBlocks :
             /\ pc = "grid" =>
                   /\ nonempty = build_nonempty_grid(WithoutBlock(m), area,
                                                     hidden_policy)
                   /\ \A rc \in InAreaCells(m) :
                         nonempty[rc[1] - area[1]][rc[2] - area[2]] = 1
                            <=> (/\ ~cell_is_empty(WsCell(ws, rc[1], rc[2]))
                                 /\ ~HiddenExcluded(rc))
             /\ RectCells(m) \cap DOMAIN lookup = {}
       /\ \A k \in DOMAIN lookup :
             /\ InArea(area, k[1], k[2])
             /\ InArea(area, lookup[k][1], lookup[k][2])

\* The grid has been built for an area that a merge block with a value in
\* its top-left cell reaches into from outside; the overlapped cell is 0
\* next to a cell that is 1.
C26_Witness ==
    /\ pc = "grid"
    /\ \E m \in OutsideBlocks :
          /\ WsCell(ws, m[1], m[2]) = Text
          /\ InAreaCells(m) # {}
          /\ \A rc \in InAreaCells(m) :
                nonempty[rc[1] - area[1]][rc[2] - area[2]] = 0
          /\ \E rc \in AreaCells(area) :
                nonempty[rc[1] - area[1]][rc[2] - area[2]] = 1

\* A merge block that lies inside the area: the lookup maps each of its
\* cells to its top-left cell.
C26_InsideWitness ==
    /\ pc = "grid"
    /\ area[1] = 2
    /\ \E m \in ws.merged :
          /\ InArea(area, m[1], m[2])
          /\ DOMAIN build_merged_lookup(ws, area) = RectCells(m)

----------------------------------------------------------------------------
(* C27 *)

\* the sheet cells of the area whose grid value is 1
NonEmptyCells ==
    {<<area[1] + rc[1], area[2] + rc[2]>> : rc \in GridOnes}

Masks == [i \in 1..Len(tables) |-> tables[i].mask]

\* C27: the tables returned by grid_to_tables partition the non-empty grid:
\* the masks of two returned tables are disjoint, the union of the masks is
\* the set of area cells whose grid value is 1, and an all-empty area
\* yields no table.
C27_MasksPartitionTheGrid ==
    pc = "tables" =>
        /\ \A i, j \in 1..Len(tables) :
              i # j => Masks[i] \cap Masks[j] = {}
        /\ UNION {Masks[i] : i \in 1..Len(tables)} = NonEmptyCells
        /\ NonEmptyCells = {} => tables = <<>>

\* Three tables or more on a sheet with a merged range that holds a value.
C27_Witness ==
    /\ pc = "tables"
    /\ Len(tables) >= 3
    /\ \E m \in ws.merged : WsCell(ws, m[1], m[2]) = Text
    /\ Cardinality(NonEmptyCells) >= 4

\* An area without a non-empty cell: no table.
C27_EmptyWitness ==
    /\ pc = "tables"
    /\ RectArea(area) >= 4
    /\ NonEmptyCells = {}
    /\ tables = <<>>

----------------------------------------------------------------------------
(* C28 *)

Adjacent8(a, b) ==
    a # b /\ Abs(a[1] - b[1]) <= 1 /\ Abs(a[2] - b[2]) <= 1

\* a comes before b in the row-major scan
ScannedBefore(a, b) == a[1] < b[1] \/ (a[1] = b[1] /\ a[2] < b[2])

SheetCell(a) == <<area[1] + a[1], area[2] + a[2]>>

\* C28: the connectivity test of the table splitter is symmetric: for every
\* pair of 8-adjacent 1-cells a and b of the grid, is_connected(a, b) =
\* is_connected(b, a).
C28_ConnectivityIsSymmetric ==
    \A a, b \in GridOnes :
        Adjacent8(a, b) => (Connected(a, b) = Connected(b, a))

\* C28, where the test is symmetric: between cells of one row or one
\* column always, and between diagonal cells when the row and the column
\* of both cells hold data.
C28_SymmetricOffEmptyRowsAndColumns ==
    LET er == empty_rows(ws, area)
        ec == empty_cols(ws, area)
    IN \A a, b \in LocalCells :
        (/\ Adjacent8(a, b)
         /\ \/ ~Diagonal(a, b)
            \/ ({a[1], b[1]} \cap er = {} /\ {a[2], b[2]} \cap ec = {}))
        => (Connected(a, b) = Connected(b, a))

\* Two diagonal 1-cells, the one scanned first continuing a merged range
\* into an empty column: the test refuses the step from it and allows the
\* step towards it, and the cells are in different tables.
C28_Witness ==
    /\ pc = "tables"
    /\ \E a, b \in GridOnes :
          /\ Diagonal(a, b)
          /\ ScannedBefore(a, b)
          /\ ~Connected(a, b)
          /\ Connected(b, a)
          /\ \A i \in 1..Len(tables) :
                ~({SheetCell(a), SheetCell(b)} \subseteq tables[i].mask)

----------------------------------------------------------------------------
(* C29 *)

\* C29: within one sheet processed by run no sheet cell belongs to the
\* masks of two different tables, however the declared print areas
\* overlap, touch or repeat: the areas produced by union_rects are pairwise
\* disjoint and every table mask stays inside the unioned area it was
\* detected in.
C29_NoCellInTwoTables ==
    pc \in {"detect", "scanned"} =>
        /\ Disjoint(unioned)
        /\ \A i \in 1..Len(sheet_tables) :
              sheet_tables[i].tbl.mask \subseteq RectCells(sheet_tables[i].union_area)
        /\ \A i, j \in 1..Len(sheet_tables) :
              i # j => sheet_tables[i].tbl.mask \cap sheet_tables[j].tbl.mask = {}

\* Two declared areas that overlap without being equal, unioned into three
\* areas or more, with tables detected in two different unioned areas.
C29_Witness ==
    /\ pc = "scanned"
    /\ Len(areas) = 2
    /\ areas[1] # areas[2]
    /\ RectCells(areas[1]) \cap RectCells(areas[2]) # {}
    /\ Len(unioned) >= 3
    /\ \E i, j \in 1..Len(sheet_tables) :
          sheet_tables[i].union_area # sheet_tables[j].union_area

----------------------------------------------------------------------------
(* C30 *)

FootnoteMode == hyperlink_mode \in {"footnote", "both"}

\* C30: footnote numbers stay unique within a footnote scope: no two
\* hyperlink cells, in the same table or in different tables, receive the
\* same footnote number, and every number in the collected footnote list
\* refers to exactly one link.
C30_FootnoteNumbersUnique ==
    FootnoteMode =>
        /\ \A i, j \in 1..Len(note_marks) :
              i # j => note_marks[i][3] # note_marks[j][3]
        /\ \A i, j \in 1..Len(footnotes) :
              footnotes[i][1] = footnotes[j][1] => footnotes[i][2] = footnotes[j][2]

\* C30, what holds: the cells of one table receive the consecutive numbers
\* 1, 2, ... in reading order, so no two cells of the same table share a
\* number; global_footnote_start stays 1, and every table starts at 1 again.
C30_UniqueWithinOneTable ==
    /\ global_footnote_start = 1
    /\ \A i, j \in 1..Len(note_marks) :
          (i # j /\ note_marks[i][1] = note_marks[j][1]) =>
              note_marks[i][3] # note_marks[j][3]
    /\ \A i \in 1..Len(note_marks) :
          note_marks[i][3] =
             Cardinality({j \in 1..i : note_marks[j][1] = note_marks[i][1]})
    /\ Len(footnotes) = Len(note_marks)

\* Two tables with one hyperlink each, to different targets: both cells
\* carry the number 1 and the list holds (1, "u") and (1, "v").
C30_Witness ==
    /\ pc = "noted"
    /\ hyperlink_mode = "footnote"
    /\ Len(links) = 2
    /\ note_marks = << <<1, 1, 1>>, <<2, 1, 1>> >>
    /\ footnotes = << <<1, "u">>, <<1, "v">> >>

====
